---- MODULE Spec2Model ----
(***************************************************************************)
(* Email-Agent: the invoice pipeline (process_message_by_id, the queue     *)
(* driven process_extraction_job) and the reconciliation engine            *)
(* (Reconciler.match_vendor / match_project / reconcile_invoice).          *)
(*                                                                         *)
(* Conventions.  A Python value that may be missing (a dict key that is    *)
(* absent, None, SQL NULL) is a sequence: <<>> when missing, <<v>> when    *)
(* present.  A text is a sequence of one-character strings.  A similarity  *)
(* score is kept in hundredths of a point (9000 is 90.0).                  *)
(***************************************************************************)
EXTENDS Integers, Sequences, FiniteSets, TLC

VARIABLES
    invoices,       \* the invoices table: a sequence of rows, in insertion order
    nextId,         \* the next fresh invoice_id (uuid.uuid4())
    worker,         \* per caller of process_message_by_id: its position and locals
    calls,          \* number of process_message_by_id calls started so far
    queue,          \* the redis list extraction_queue (head = left end)
    processed_ids,  \* run_ingestion's in-memory set of message ids already enqueued
    enqueued,       \* number of jobs pushed so far
    job,            \* the extraction worker: its position and locals
    vendors,        \* the vendors table, in primary-key order
    projects,       \* the projects table, in primary-key order
    invoice,        \* the Invoice object handed to reconcile_invoice
    last,           \* what the last reconcile_invoice call did
    matched,        \* what the last match_vendor / match_project call returned
    batch,          \* run_reconciler_worker: its position, snapshot and objects
    doc,            \* the last call of the extractor: its input and result
    cat,            \* the last call of the item categorizer: its input and result
    sync,           \* sync_inbox_internal: its position, counters and log
    sched,          \* the scheduler module: _is_running and the triggered threads
    api             \* process_messages_endpoint: its position, locals and job_store

vars == << invoices, nextId, worker, calls, queue, processed_ids, enqueued, job,
           vendors, projects, invoice, last, matched, batch, doc, cat, sync, sched, api >>

\* the state of the components around the pipelines and the engine
componentVars == << batch, doc, cat, sync, sched, api >>

pipelineVars == << invoices, nextId, worker, calls, queue, processed_ids, enqueued, job >>
registryVars == << vendors, projects >>
reconcileVars == << invoice, last >>

-----------------------------------------------------------------------------
(* Optional values *)

None == <<>>
Some(v) == <<v>>
IsSome(o) == Len(o) = 1
Get(o) == o[1]

RECURSIVE SumSeq(_)
SumSeq(s) == IF s = <<>> THEN 0 ELSE Head(s) + SumSeq(Tail(s))

-----------------------------------------------------------------------------
(* Texts *)

UpperToLower ==
    [A |-> "a", B |-> "b", C |-> "c", D |-> "d", E |-> "e", F |-> "f", G |-> "g",
     H |-> "h", I |-> "i", J |-> "j", K |-> "k", L |-> "l", M |-> "m", N |-> "n",
     O |-> "o", P |-> "p", Q |-> "q", R |-> "r", S |-> "s", T |-> "t", U |-> "u",
     V |-> "v", W |-> "w", X |-> "x", Y |-> "y", Z |-> "z"]

LowerChar(c) == IF c \in DOMAIN UpperToLower THEN UpperToLower[c] ELSE c

\* str.lower()
Lower(s) == [i \in 1..Len(s) |-> LowerChar(s[i])]

IsSpace(c) == c \in { " ", "\n", "\t" }

RECURSIVE LStrip(_)
LStrip(s) == IF s # <<>> /\ IsSpace(Head(s)) THEN LStrip(Tail(s)) ELSE s

RECURSIVE RStrip(_)
RStrip(s) ==
    IF s # <<>> /\ IsSpace(s[Len(s)]) THEN RStrip(SubSeq(s, 1, Len(s) - 1)) ELSE s

\* str.strip()
Strip(s) == RStrip(LStrip(s))

Max2(a, b) == IF a >= b THEN a ELSE b

RECURSIVE LcsRow(_, _, _, _, _)
\* One row of the longest-common-subsequence table: prev is the row of the
\* previous character of a (prev[j+1] is the cell of column j, column 0 first),
\* acc the cells of this row computed so far.
LcsRow(ch, b, prev, acc, j) ==
    IF j > Len(b) THEN acc
    ELSE LET cell == IF ch = b[j] THEN prev[j] + 1
                     ELSE Max2(prev[j + 1], acc[j])
         IN  LcsRow(ch, b, prev, Append(acc, cell), j + 1)

RECURSIVE LcsRows(_, _, _, _)
LcsRows(a, b, prev, i) ==
    IF i > Len(a) THEN prev
    ELSE LcsRows(a, b, LcsRow(a[i], b, prev, <<0>>, 1), i + 1)

\* length of the longest common subsequence of a and b
Lcs(a, b) == LcsRows(a, b, [j \in 1..(Len(b) + 1) |-> 0], 1)[Len(b) + 1]

\* rapidfuzz.fuzz.ratio: the normalized Indel similarity on the scale 0..100,
\* 100 * (1 - (|a| + |b| - 2 lcs) / (|a| + |b|)), and 100 for two empty texts;
\* here in hundredths, rounded down.
Ratio(a, b) ==
    IF Len(a) + Len(b) = 0 THEN 10000
    ELSE (20000 * Lcs(a, b)) \div (Len(a) + Len(b))

-----------------------------------------------------------------------------
(* The registry and the fuzzy matching of Reconciler *)

AutoMatchScore == 90
SuggestScore == 60
MaxSuggestions == 3

\* a threshold of the code, in hundredths
Points(n) == n * 100

\* Reconciler._load_vendors: every vendor with its name variants, canonical first
LoadVendors(tbl) ==
    [i \in 1..Len(tbl) |->
        [id |-> tbl[i].vendor_id,
         canonical_name |-> tbl[i].canonical_name,
         all_names |-> <<tbl[i].canonical_name>> \o tbl[i].aliases]]

\* Reconciler._load_projects: every project with its name and codes
LoadProjects(tbl) ==
    [i \in 1..Len(tbl) |->
        [id |-> tbl[i].project_id,
         canonical_name |-> tbl[i].name,
         all_names |-> <<tbl[i].name>> \o tbl[i].codes]]

\* no sorting: the candidates stay in registry order
InsertAtEnd(sorted, x) == Append(sorted, x)

RECURSIVE InsertByScore(_, _)
\* sorted(..., key=score, reverse=True) is stable: an element goes behind every
\* element already placed whose score is not smaller
InsertByScore(sorted, x) ==
    IF sorted = <<>> THEN <<x>>
    ELSE IF Head(sorted).score >= x.score
         THEN <<Head(sorted)>> \o InsertByScore(Tail(sorted), x)
         ELSE <<x>> \o sorted

RECURSIVE SortByScoreDesc(_, _)
SortByScoreDesc(s, acc) ==
    IF s = <<>> THEN acc
    ELSE SortByScoreDesc(Tail(s), InsertByScore(acc, Head(s)))

\* the slice [:n]
Take(s, n) == SubSeq(s, 1, IF Len(s) < n THEN Len(s) ELSE n)

RECURSIVE MatchLoopLastWins(_, _, _, _, _)
\* the loops with "score >= best_score": on equal scores the last variant wins
MatchLoopLastWins(entries, q, e, k, st) ==
    IF e > Len(entries) THEN st
    ELSE IF k > Len(entries[e].all_names)
         THEN MatchLoopLastWins(entries, q, e + 1, 1, st)
    ELSE LET score == Ratio(Lower(q), Lower(entries[e].all_names[k]))
             better == score >= st.best_score
             st1 == [best_match |-> IF better THEN Some(entries[e].id) ELSE st.best_match,
                     best_score |-> IF better THEN score ELSE st.best_score,
                     suggestions |->
                        IF score >= Points(SuggestScore)
                        THEN Append(st.suggestions,
                                    [id |-> entries[e].id,
                                     name |-> entries[e].canonical_name,
                                     score |-> score])
                        ELSE st.suggestions]
         IN  MatchLoopLastWins(entries, q, e, k + 1, st1)

RECURSIVE MatchLoop(_, _, _, _, _)
\* the two nested loops of match_vendor / match_project: entry e of the loaded
\* registry, name variant k of it; st carries best_match, best_score, suggestions
MatchLoop(entries, q, e, k, st) ==
    IF e > Len(entries) THEN st
    ELSE IF k > Len(entries[e].all_names) THEN MatchLoop(entries, q, e + 1, 1, st)
    ELSE LET score == Ratio(Lower(q), Lower(entries[e].all_names[k]))
             better == score > st.best_score
             st1 == [best_match |-> IF better THEN Some(entries[e].id) ELSE st.best_match,
                     best_score |-> IF better THEN score ELSE st.best_score,
                     suggestions |->
                        IF score >= Points(SuggestScore)
                        THEN Append(st.suggestions,
                                    [id |-> entries[e].id,
                                     name |-> entries[e].canonical_name,
                                     score |-> score])
                        ELSE st.suggestions]
         IN  MatchLoop(entries, q, e, k + 1, st1)

NoMatch == [best_match |-> None, best_score |-> 0, suggestions |-> <<>>]

\* the body shared by match_vendor and match_project
FuzzyMatch(entries, name) ==
    IF name = <<>> THEN NoMatch
    ELSE LET st == MatchLoop(entries, Strip(name), 1, 1, NoMatch)
         IN  [st EXCEPT !.suggestions =
                 Take(SortByScoreDesc(st.suggestions, <<>>), MaxSuggestions)]

\* Reconciler.match_vendor
MatchVendor(entries, vendor_name) == FuzzyMatch(entries, vendor_name)

\* Reconciler.match_project
MatchProject(entries, project_name) == FuzzyMatch(entries, project_name)

\* the name of the first entry, whatever the id
CanonicalNameOfFirst(entries, id) == entries[1].canonical_name

\* next(v['canonical_name'] for v in self.vendors if v['vendor_id'] == vendor_id)
CanonicalNameOf(entries, id) ==
    LET i == CHOOSE i \in 1..Len(entries) :
                /\ entries[i].id = id
                /\ \A j \in 1..(i - 1) : entries[j].id # id
    IN  entries[i].canonical_name

-----------------------------------------------------------------------------
(* Invoice rows and Reconciler.reconcile_invoice *)

\* the empty normalized map {}
EmptyNormalized ==
    [vendor_id |-> None, vendor_name |-> None, project_id |-> None,
     project_name |-> None, total_amount |-> None, currency |-> None, date |-> None]

\* the empty extracted map {}
EmptyExtracted ==
    [vendor_name |-> None, project_name |-> None, project_code |-> None,
     total_amount |-> None, date |-> None]

\* the empty extra map {}
EmptyExtra == [avg_confidence |-> None, suggestions |-> None]

\* the empty suggestions map {}
EmptySuggestions == [vendors |-> None, projects |-> None]

\* An entry of the extracted map: a dict with (or without) 'value' and, for an
\* amount, 'currency'; or some other truthy value that is not a dict.
Field(value) ==
    [is_dict |-> TRUE, value |-> Some(value), currency |-> None, confidence |-> Some(85)]
FieldWithCurrency(value, cur) ==
    [is_dict |-> TRUE, value |-> Some(value), currency |-> Some(cur), confidence |-> Some(90)]
NonDict == [is_dict |-> FALSE, value |-> None, currency |-> None, confidence |-> None]

\* isinstance(d, dict) and 'value' in d
HasValue(f) == f.is_dict /\ IsSome(f.value)

\* invoice.normalized or {}
NormalizedOrEmpty(inv) ==
    IF IsSome(inv.normalized) THEN Get(inv.normalized) ELSE EmptyNormalized

\* the status started from 'needs_review' whatever the invoice holds
StatusReset(inv) == "needs_review"

\* invoice.reconciliation_status or 'needs_review'
StatusOrDefault(inv) ==
    IF IsSome(inv.reconciliation_status) THEN Get(inv.reconciliation_status)
    ELSE "needs_review"

\* not invoice.extra
ExtraIsFalsy(extra) == extra = None \/ extra = Some(EmptyExtra)

\* the new suggestions appended to the stored list instead of replacing it
StoreSuggestionsAppended(extra, kind, suggestions) ==
    LET ex == IF ExtraIsFalsy(extra) THEN EmptyExtra ELSE Get(extra)
        sg == IF IsSome(ex.suggestions) THEN Get(ex.suggestions) ELSE EmptySuggestions
        old == IF kind = "vendors" THEN sg.vendors ELSE sg.projects
        new == Some((IF IsSome(old) THEN Get(old) ELSE <<>>) \o suggestions)
        sg1 == IF kind = "vendors" THEN [sg EXCEPT !.vendors = new]
               ELSE [sg EXCEPT !.projects = new]
    IN  Some([ex EXCEPT !.suggestions = Some(sg1)])

\* invoice.extra['suggestions'][kind] = suggestions, after the two guards that
\* create extra and extra['suggestions'] when missing
StoreSuggestions(extra, kind, suggestions) ==
    LET ex == IF ExtraIsFalsy(extra) THEN EmptyExtra ELSE Get(extra)
        sg == IF IsSome(ex.suggestions) THEN Get(ex.suggestions) ELSE EmptySuggestions
        sg1 == IF kind = "vendors" THEN [sg EXCEPT !.vendors = Some(suggestions)]
               ELSE [sg EXCEPT !.projects = Some(suggestions)]
    IN  Some([ex EXCEPT !.suggestions = Some(sg1)])

\* the vendor name read from extracted (None when there is none)
ExtractedVendorName(extracted) ==
    IF IsSome(extracted.vendor_name) /\ HasValue(Get(extracted.vendor_name))
    THEN Get(extracted.vendor_name).value
    ELSE None

\* the project name read from extracted:
\* extracted.get('project_name') or extracted.get('project_code')
ExtractedProjectName(extracted) ==
    LET project_data == IF IsSome(extracted.project_name) THEN extracted.project_name
                        ELSE extracted.project_code
    IN  IF IsSome(project_data) /\ HasValue(Get(project_data))
        THEN Get(project_data).value
        ELSE None

\* "Match vendor" with the status left as it was on an auto-match
ReconcileVendorKeepsStatus(inv, vendor_entries, st) ==
    LET name == ExtractedVendorName(inv.extracted)
    IN  IF name = None \/ Get(name) = <<>> THEN st
        ELSE LET m == MatchVendor(vendor_entries, Get(name))
             IN  IF m.best_score >= Points(AutoMatchScore)
                 THEN [st EXCEPT
                         !.normalized = [@ EXCEPT
                             !.vendor_id = m.best_match,
                             !.vendor_name = Some(CanonicalNameOf(vendor_entries, Get(m.best_match)))],
                         !.updated = TRUE,
                         !.vendor_branch = "auto"]
                 ELSE IF m.best_score >= Points(SuggestScore)
                 THEN [st EXCEPT
                         !.extra = StoreSuggestions(@, "vendors", m.suggestions),
                         !.updated = TRUE,
                         !.vendor_branch = "suggest"]
                 ELSE st

\* "Match vendor" accepting every match of the suggestion tier
ReconcileVendorEager(inv, vendor_entries, st) ==
    LET name == ExtractedVendorName(inv.extracted)
    IN  IF name = None \/ Get(name) = <<>> THEN st
        ELSE LET m == MatchVendor(vendor_entries, Get(name))
             IN  IF m.best_score >= Points(SuggestScore)
                 THEN [st EXCEPT
                         !.normalized = [@ EXCEPT
                             !.vendor_id = m.best_match,
                             !.vendor_name = Some(CanonicalNameOf(vendor_entries, Get(m.best_match)))],
                         !.status = "auto_matched",
                         !.updated = TRUE,
                         !.vendor_branch = "auto"]
                 ELSE st

\* "Match vendor": st is [normalized, status, extra, updated, vendor_branch, project_branch]
ReconcileVendor(inv, vendor_entries, st) ==
    LET name == ExtractedVendorName(inv.extracted)
    IN  IF name = None \/ Get(name) = <<>> THEN st
        ELSE LET m == MatchVendor(vendor_entries, Get(name))
             IN  IF m.best_score >= Points(AutoMatchScore)
                 THEN [st EXCEPT
                         !.normalized = [@ EXCEPT
                             !.vendor_id = m.best_match,
                             !.vendor_name = Some(CanonicalNameOf(vendor_entries, Get(m.best_match)))],
                         !.status = "auto_matched",
                         !.updated = TRUE,
                         !.vendor_branch = "auto"]
                 ELSE IF m.best_score >= Points(SuggestScore)
                 THEN [st EXCEPT
                         !.extra = StoreSuggestions(@, "vendors", m.suggestions),
                         !.updated = TRUE,
                         !.vendor_branch = "suggest"]
                 ELSE st

\* "Match project"
ReconcileProject(inv, project_entries, st) ==
    LET name == ExtractedProjectName(inv.extracted)
    IN  IF name = None \/ Get(name) = <<>> THEN st
        ELSE LET m == MatchProject(project_entries, Get(name))
             IN  IF m.best_score >= Points(AutoMatchScore)
                 THEN [st EXCEPT
                         !.normalized = [@ EXCEPT
                             !.project_id = m.best_match,
                             !.project_name = Some(CanonicalNameOf(project_entries, Get(m.best_match)))],
                         !.updated = TRUE,
                         !.project_branch = "auto"]
                 ELSE IF m.best_score >= Points(SuggestScore)
                 THEN [st EXCEPT
                         !.extra = StoreSuggestions(@, "projects", m.suggestions),
                         !.updated = TRUE,
                         !.project_branch = "suggest"]
                 ELSE st

\* "Update normalized totals if available", and the date
ReconcileTotals(inv, st) ==
    LET ex == inv.extracted
        st1 == IF IsSome(ex.total_amount) /\ HasValue(Get(ex.total_amount))
               THEN [st EXCEPT
                       !.normalized = [@ EXCEPT
                           !.total_amount = Get(ex.total_amount).value,
                           !.currency = IF IsSome(Get(ex.total_amount).currency)
                                        THEN Get(ex.total_amount).currency
                                        ELSE @],
                       !.updated = TRUE]
               ELSE st
    IN  IF IsSome(ex.date) /\ HasValue(Get(ex.date))
        THEN [st1 EXCEPT !.normalized = [@ EXCEPT !.date = Get(ex.date).value],
                         !.updated = TRUE]
        ELSE st1

\* normalized and the status written whatever the value of updated
WrittenAlways(inv, st) ==
    [invoice |-> [inv EXCEPT !.normalized = Some(st.normalized),
                             !.reconciliation_status = Some(st.status),
                             !.extra = st.extra],
     updated |-> st.updated,
     vendor_branch |-> st.vendor_branch,
     project_branch |-> st.project_branch]

\* "if updated": normalized and the status are written to the invoice; extra
\* has been changed in place
Written(inv, st) ==
    [invoice |->
        IF st.updated
        THEN [inv EXCEPT !.normalized = Some(st.normalized),
                         !.reconciliation_status = Some(st.status),
                         !.extra = st.extra]
        ELSE [inv EXCEPT !.extra = st.extra],
     updated |-> st.updated,
     vendor_branch |-> st.vendor_branch,
     project_branch |-> st.project_branch]

\* Reconciler.reconcile_invoice: the invoice as the call leaves it, the value
\* returned, and the branch taken for the vendor and for the project
ReconcileInvoice(inv, vendor_entries, project_entries) ==
    LET st0 == [normalized |-> NormalizedOrEmpty(inv),
                status |-> StatusOrDefault(inv),
                extra |-> inv.extra,
                updated |-> FALSE,
                vendor_branch |-> "none",
                project_branch |-> "none"]
        st1 == ReconcileVendor(inv, vendor_entries, st0)
        st2 == ReconcileProject(inv, project_entries, st1)
    IN  Written(inv, ReconcileTotals(inv, st2))

-----------------------------------------------------------------------------
(* Bounds and inputs of the reconciliation model *)

MaxVendors == 2
MaxProjects == 1

\* the vendor text of the documents, "  Acmes" with its leading blanks
VendorText == <<" ", "A", "c", "m", "e", "s">>

\* the project texts of the documents
ProjectText == <<"P", "a", "c", "e", "s">>
ProjectCodeText == <<"P", "a", "c", "e">>

\* Rows the vendors table may hold.  Against "acmes": ACMESS 90.9, acme, ames
\* and acms 88.9, ac and am 57.1; against "acme": acme 100, ACMESS 80, ames
\* and acms 75, ac and am 66.7.
VendorRows ==
    { [vendor_id |-> 1, canonical_name |-> <<"a", "c">>,
                        aliases |-> << <<"A", "C", "M", "E", "S", "S">> >>],
      [vendor_id |-> 2, canonical_name |-> <<"a", "c", "m", "e">>,
                        aliases |-> << <<"a", "m", "e", "s">>, <<"a", "c", "m", "s">> >>],
      [vendor_id |-> 3, canonical_name |-> <<"a", "m">>, aliases |-> <<>>] }

\* Rows the projects table may hold.  Against "paces": PACES 100, pacess 90.9,
\* pa 57.1; against "pace": PACES 88.9, pacess 80, pa 66.7.
ProjectRows ==
    { [project_id |-> 1, name |-> <<"P", "A", "C", "E", "S">>, codes |-> <<>>],
      [project_id |-> 2, name |-> <<"p", "a">>,
                         codes |-> << <<"p", "a", "c", "e", "s", "s">> >>] }

VendorFields == { None, Some(Field(VendorText)), Some(NonDict) }
ProjectNameFields == { None, Some(Field(ProjectText)) }
ProjectCodeFields == { None, Some(Field(ProjectCodeText)) }
TotalFields == { None, Some(Field(12000)), Some(FieldWithCurrency(12000, "USD")) }
DateFields == { None, Some(Field("2025-10-21")) }

\* the extracted maps of the documents: every vendor entry with every amount,
\* every project entry with every date, and a document that carries all
ExtractedMaps ==
    { [EmptyExtracted EXCEPT !.vendor_name = v, !.total_amount = t] :
        v \in VendorFields, t \in TotalFields }
    \cup
    { [EmptyExtracted EXCEPT !.project_name = pn, !.project_code = pc, !.date = d] :
        pn \in ProjectNameFields, pc \in ProjectCodeFields, d \in DateFields }
    \cup
    { [vendor_name |-> Some(Field(VendorText)),
       project_name |-> Some(Field(ProjectText)),
       project_code |-> Some(Field(ProjectCodeText)),
       total_amount |-> Some(FieldWithCurrency(12000, "USD")),
       date |-> Some(Field("2025-10-21"))] }

\* Invoice(...) as the pipelines and the tests construct it
NewInvoice(id, source, extracted, status, extra) ==
    [invoice_id |-> id,
     source_email_id |-> source,
     extracted |-> extracted,
     normalized |-> Some(EmptyNormalized),
     reconciliation_status |-> status,
     extra |-> extra]

-----------------------------------------------------------------------------
(* The registry tables *)

\* DELETE of row i
RemoveAt(s, i) == SubSeq(s, 1, i - 1) \o SubSeq(s, i + 1, Len(s))

NoCall == [op |-> "none"]

\* INSERT INTO vendors: the primary key is unique
AddVendor(row) ==
    /\ Len(vendors) < MaxVendors
    /\ \A i \in 1..Len(vendors) : vendors[i].vendor_id # row.vendor_id
    /\ vendors' = Append(vendors, row)
    /\ last' = NoCall
    /\ matched' = NoCall
    /\ UNCHANGED << pipelineVars, componentVars, projects, invoice >>

\* DELETE FROM vendors
DeleteVendor(i) ==
    /\ i \in 1..Len(vendors)
    /\ vendors' = RemoveAt(vendors, i)
    /\ last' = NoCall
    /\ matched' = NoCall
    /\ UNCHANGED << pipelineVars, componentVars, projects, invoice >>

\* INSERT INTO projects
AddProject(row) ==
    /\ Len(projects) < MaxProjects
    /\ \A i \in 1..Len(projects) : projects[i].project_id # row.project_id
    /\ projects' = Append(projects, row)
    /\ last' = NoCall
    /\ matched' = NoCall
    /\ UNCHANGED << pipelineVars, componentVars, vendors, invoice >>

\* DELETE FROM projects
DeleteProject(i) ==
    /\ i \in 1..Len(projects)
    /\ projects' = RemoveAt(projects, i)
    /\ last' = NoCall
    /\ matched' = NoCall
    /\ UNCHANGED << pipelineVars, componentVars, vendors, invoice >>

\* Reconciler(db).reconcile_invoice(invoice): the registry is loaded, the
\* invoice reconciled in place
Reconcile ==
    \E r \in { ReconcileInvoice(invoice, LoadVendors(vendors), LoadProjects(projects)) } :
        /\ invoice' = r.invoice
        /\ last' = [op |-> "reconcile",
                    before |-> invoice,
                    updated |-> r.updated,
                    vendor_branch |-> r.vendor_branch,
                    project_branch |-> r.project_branch,
                    streak |-> IF last.op = "reconcile" THEN 2 ELSE 1]
        /\ matched' = NoCall
        /\ UNCHANGED << pipelineVars, componentVars, registryVars >>

-----------------------------------------------------------------------------
(* The pipelines: process_message_by_id and process_extraction_job *)

MaxCalls == 3
MaxJobs == 2

Workers == {"w1", "w2"}
Msgs == {"m1", "m2"}

\* what the extractor finds in the attachments of a message
DocOf(m) ==
    IF m = "m1"
    THEN [EmptyExtracted EXCEPT !.vendor_name = Some(Field(VendorText)),
                                !.total_amount = Some(FieldWithCurrency(12000, "USD"))]
    ELSE [EmptyExtracted EXCEPT !.date = Some(Field("2025-10-21"))]

\* the entries of an extracted map, as a sequence
Entries(extracted) ==
    << extracted.vendor_name, extracted.project_name, extracted.project_code,
       extracted.total_amount, extracted.date >>

RECURSIVE Confidences(_, _)
\* [v.get('confidence', 0) for v in extracted.values() if isinstance(v, dict)
\*  (and 'confidence' in v, when only the entries with a confidence count)]
Confidences(entries, with_confidence_only) ==
    IF entries = <<>> THEN <<>>
    ELSE LET e == Head(entries)
             rest == Confidences(Tail(entries), with_confidence_only)
         IN  IF /\ IsSome(e)
                /\ Get(e).is_dict
                /\ (with_confidence_only => IsSome(Get(e).confidence))
             THEN <<IF IsSome(Get(e).confidence) THEN Get(Get(e).confidence) ELSE 0>> \o rest
             ELSE rest

\* sum(confidences) / len(confidences) if confidences else 0.5, as <<sum, count>>
Average(confidences) ==
    IF confidences = <<>> THEN <<50, 1>> ELSE <<SumSeq(confidences), Len(confidences)>>

\* process_message_by_id counts the dicts that carry a confidence
AdapterConfidence(extracted) == Average(Confidences(Entries(extracted), TRUE))

\* process_extraction_job counts every dict
JobConfidence(extracted) == Average(Confidences(Entries(extracted), FALSE))

\* the rows of a source, as indices into the table
RowsOf(m) == { i \in 1..Len(invoices) : invoices[i].source_email_id = m }

\* the row with a given invoice_id exists
HasInvoice(id) == \E i \in 1..Len(invoices) : invoices[i].invoice_id = id

NoResult == [status |-> "none", already_processed |-> FALSE, invoice_id |-> None]
Failed == [status |-> "failed", already_processed |-> FALSE, invoice_id |-> None]
Success(id, already) == [status |-> "success", already_processed |-> already, invoice_id |-> Some(id)]

IdleWorker ==
    [pc |-> "idle", message_id |-> "m1", force |-> FALSE, invoice_id |-> 0,
     extracted |-> EmptyExtracted, seen |-> {}, result |-> NoResult]

IdleJob ==
    [pc |-> "idle", email_id |-> "m1", invoice_id |-> 0, extracted |-> EmptyExtracted,
     existed |-> FALSE, result |-> "none", n |-> 0]

otherVars == << registryVars, reconcileVars, matched, componentVars >>

\* return of process_message_by_id
Return(w, result) ==
    worker' = [worker EXCEPT ![w].pc = "idle", ![w].result = result,
                             ![w].extracted = EmptyExtracted]

\* a call whose force flag is not read: the idempotency check always runs
CallChecked(w, m, force) ==
    /\ worker[w].pc = "idle"
    /\ calls < MaxCalls
    /\ calls' = calls + 1
    /\ worker' = [worker EXCEPT ![w] =
            [pc |-> "lookup",
             message_id |-> m, force |-> force, invoice_id |-> 0,
             extracted |-> EmptyExtracted,
             seen |-> { invoices[i].invoice_id : i \in RowsOf(m) },
             result |-> NoResult]]
    /\ UNCHANGED << invoices, nextId, queue, processed_ids, enqueued, job, otherVars >>

\* process_message_by_id(message_id, force) is called; seen notes the rows the
\* source has at that moment
Call(w, m, force) ==
    /\ worker[w].pc = "idle"
    /\ calls < MaxCalls
    /\ calls' = calls + 1
    /\ worker' = [worker EXCEPT ![w] =
            [pc |-> IF force THEN "fetch" ELSE "lookup",
             message_id |-> m, force |-> force, invoice_id |-> 0,
             extracted |-> EmptyExtracted,
             seen |-> { invoices[i].invoice_id : i \in RowsOf(m) },
             result |-> NoResult]]
    /\ UNCHANGED << invoices, nextId, queue, processed_ids, enqueued, job, otherVars >>

\* the idempotency check left out: every call goes on to fetch
LookupSkipped(w) ==
    /\ worker[w].pc = "lookup"
    /\ worker' = [worker EXCEPT ![w].pc = "fetch"]
    /\ UNCHANGED << invoices, nextId, calls, queue, processed_ids, enqueued, job, otherVars >>

\* the idempotency check: query(Invoice).filter(source_email_id == message_id).first()
Lookup(w) ==
    /\ worker[w].pc = "lookup"
    /\ \/ \E i \in RowsOf(worker[w].message_id) :
             Return(w, Success(invoices[i].invoice_id, TRUE))
       \/ /\ RowsOf(worker[w].message_id) = {}
          /\ worker' = [worker EXCEPT ![w].pc = "fetch"]
    /\ UNCHANGED << invoices, nextId, calls, queue, processed_ids, enqueued, job, otherVars >>

\* an exception that leaves process_message_by_id
RawException == [status |-> "raised", already_processed |-> FALSE, invoice_id |-> None]

\* SessionLocal() or the query of the idempotency check raises: the session
\* is closed in the finally and the exception goes to the caller, the check
\* being outside the try of the function
LookupFails(w) ==
    /\ worker[w].pc = "lookup"
    /\ Return(w, RawException)
    /\ UNCHANGED << invoices, nextId, calls, queue, processed_ids, enqueued, job, otherVars >>

\* ensure_s3_bucket, get_gmail_service, fetch_message_body_and_attachments
Fetch(w) ==
    /\ worker[w].pc = "fetch"
    /\ \/ worker' = [worker EXCEPT ![w].pc = "upload"]
       \/ Return(w, Failed)
    /\ UNCHANGED << invoices, nextId, calls, queue, processed_ids, enqueued, job, otherVars >>

\* the raw email and the attachments are put to object storage
Upload(w) ==
    /\ worker[w].pc = "upload"
    /\ \/ worker' = [worker EXCEPT ![w].pc = "extract"]
       \/ Return(w, Failed)
    /\ UNCHANGED << invoices, nextId, calls, queue, processed_ids, enqueued, job, otherVars >>

\* text and field extraction; its errors are swallowed and leave extracted = {};
\* then invoice_id = uuid.uuid4() and the Invoice object is built
Extract(w) ==
    /\ worker[w].pc = "extract"
    /\ \E ex \in {DocOf(worker[w].message_id), EmptyExtracted} :
          worker' = [worker EXCEPT ![w].pc = "insert",
                                   ![w].extracted = ex,
                                   ![w].invoice_id = nextId]
    /\ nextId' = nextId + 1
    /\ UNCHANGED << invoices, calls, queue, processed_ids, enqueued, job, otherVars >>

\* db.add(invoice); db.commit()
Insert(w) ==
    /\ worker[w].pc = "insert"
    /\ \/ /\ invoices' = Append(invoices,
                NewInvoice(worker[w].invoice_id, worker[w].message_id, worker[w].extracted,
                           Some("needs_review"),
                           Some([avg_confidence |-> Some(AdapterConfidence(worker[w].extracted)),
                                 suggestions |-> None])))
          /\ worker' = [worker EXCEPT ![w].pc = "put_extraction"]
       \/ /\ Return(w, Failed)
          /\ UNCHANGED invoices
    /\ UNCHANGED << nextId, calls, queue, processed_ids, enqueued, job, otherVars >>

\* the extraction JSON is put to object storage, after the commit
PutExtraction(w) ==
    /\ worker[w].pc = "put_extraction"
    /\ \/ Return(w, Success(worker[w].invoice_id, FALSE))
       \/ Return(w, Failed)
    /\ UNCHANGED << invoices, nextId, calls, queue, processed_ids, enqueued, job, otherVars >>

\* run_ingestion finds the unread message m, not yet in processed_ids, and
\* process_message enqueues its extraction job (lpush)
Ingest(m) ==
    /\ m \notin processed_ids
    /\ enqueued < MaxJobs
    /\ queue' = <<[email_id |-> m, n |-> enqueued + 1]>> \o queue
    /\ processed_ids' = processed_ids \cup {m}
    /\ enqueued' = enqueued + 1
    /\ UNCHANGED << invoices, nextId, worker, calls, job, otherVars >>

\* the ingestion service restarts: processed_ids = set() again, the messages
\* are still unread
IngesterRestart ==
    /\ processed_ids # {}
    /\ processed_ids' = {}
    /\ UNCHANGED << invoices, nextId, worker, calls, queue, enqueued, job, otherVars >>

\* return of process_extraction_job
JobReturn(value) ==
    job' = [job EXCEPT !.pc = "idle", !.result = value, !.extracted = EmptyExtracted]

\* process_extraction_job(job_data, db) starts on the payload j; existed notes
\* whether the source has a row, n is the number of the job in enqueue order
Started(j) ==
    [pc |-> "download", email_id |-> j.email_id, invoice_id |-> 0,
     extracted |-> EmptyExtracted, existed |-> RowsOf(j.email_id) # {},
     result |-> "none", n |-> j.n]

\* a worker that pops at the end the jobs are pushed to
JobPopLeft ==
    /\ job.pc = "idle"
    /\ queue # <<>>
    /\ job' = Started(queue[1])
    /\ queue' = Tail(queue)
    /\ UNCHANGED << invoices, nextId, worker, calls, processed_ids, enqueued, otherVars >>

\* run_extractor_worker: brpop takes the job at the right end of the list and
\* process_extraction_job starts
JobPop ==
    /\ job.pc = "idle"
    /\ queue # <<>>
    /\ job' = Started(queue[Len(queue)])
    /\ queue' = SubSeq(queue, 1, Len(queue) - 1)
    /\ UNCHANGED << invoices, nextId, worker, calls, processed_ids, enqueued, otherVars >>

\* the raw email is read from object storage
JobDownload ==
    /\ job.pc = "download"
    /\ \/ job' = [job EXCEPT !.pc = "extract"]
       \/ JobReturn("false")
    /\ UNCHANGED << invoices, nextId, worker, calls, queue, processed_ids, enqueued, otherVars >>

\* extractor.process_email, whose errors are not caught here, then
\* Invoice(invoice_id=uuid.uuid4(), ...)
JobExtract ==
    /\ job.pc = "extract"
    /\ \/ /\ job' = [job EXCEPT !.pc = "insert",
                                  !.extracted = DocOf(job.email_id),
                                  !.invoice_id = nextId]
          /\ nextId' = nextId + 1
       \/ /\ JobReturn("false")
          /\ UNCHANGED nextId
    /\ UNCHANGED << invoices, worker, calls, queue, processed_ids, enqueued, otherVars >>

\* db.add(invoice); db.commit(); a failed commit is rolled back
JobInsert ==
    /\ job.pc = "insert"
    /\ \/ /\ invoices' = Append(invoices,
                NewInvoice(job.invoice_id, job.email_id, job.extracted,
                           Some("needs_review"),
                           Some([avg_confidence |-> Some(JobConfidence(job.extracted)),
                                 suggestions |-> None])))
          /\ job' = [job EXCEPT !.pc = "put_extraction"]
       \/ /\ JobReturn("false")
          /\ UNCHANGED invoices
    /\ UNCHANGED << nextId, worker, calls, queue, processed_ids, enqueued, otherVars >>

\* the extraction JSON is put to object storage; when that raises, db.rollback()
\* finds nothing to roll back, the commit is done
JobPutExtraction ==
    /\ job.pc = "put_extraction"
    /\ \/ JobReturn("true")
       \/ JobReturn("false")
    /\ UNCHANGED << invoices, nextId, worker, calls, queue, processed_ids, enqueued, otherVars >>

-----------------------------------------------------------------------------
(* Specifications *)

DefaultInvoice ==
    NewInvoice(0, "m1", EmptyExtracted, Some("needs_review"), None)

InitPipeline ==
    /\ invoices = <<>>
    /\ nextId = 1
    /\ worker = [w \in Workers |-> IdleWorker]
    /\ calls = 0
    /\ queue = <<>>
    /\ processed_ids = {}
    /\ enqueued = 0
    /\ job = IdleJob

InitRegistry ==
    /\ vendors = <<>>
    /\ projects = <<>>

\* the reconciliation worker has not queried yet
IdleBatch ==
    [pc |-> "query", todo |-> {}, objs |-> <<>>, loaded |-> <<>>, vendors |-> <<>>,
     projects |-> <<>>, passed |-> {}]

\* sync_inbox_internal has not been called
IdleSync ==
    [pc |-> "idle", message_ids |-> <<>>, i |-> 1, total_found |-> 0, processed |-> 0,
     skipped |-> 0, errors |-> 0, new_invoices |-> 0, log |-> <<>>]

\* the threads of the scheduler's pool that run the interval job
Threads == { "t1", "t2", "t3" }

\* scheduler.py after import: _is_running = False, no trigger has fired
IdleSched ==
    [is_running |-> FALSE, pc |-> [t \in Threads |-> "idle"], triggers |-> 0,
     runs |-> 0, skipped |-> 0, raised |-> 0]

\* candidates.py after import with an empty job store; no request is served
IdleApi ==
    [pc |-> "idle", message_ids |-> <<>>, i |-> 1, jobs |-> <<>>, job_store |-> <<>>,
     job_id |-> 0, requests |-> 0]

InitComponents ==
    /\ batch = IdleBatch
    /\ doc = [op |-> "none"]
    /\ cat = [op |-> "none"]
    /\ sync = IdleSync
    /\ sched = IdleSched
    /\ api = IdleApi

Init ==
    /\ InitPipeline
    /\ InitRegistry
    /\ InitComponents
    /\ invoice = DefaultInvoice
    /\ last = NoCall
    /\ matched = NoCall

\* concurrent callers of process_message_by_id (API requests, the scheduled
\* and the manual sync)
Next ==
    \/ \E w \in Workers, m \in Msgs, force \in BOOLEAN : Call(w, m, force)
    \/ \E w \in Workers : Lookup(w)
    \/ \E w \in Workers : Fetch(w)
    \/ \E w \in Workers : Upload(w)
    \/ \E w \in Workers : Extract(w)
    \/ \E w \in Workers : Insert(w)
    \/ \E w \in Workers : PutExtraction(w)

\* one caller of process_message_by_id, never forcing: its calls are sequential
NextSequential ==
    \/ \E m \in Msgs : Call("w1", m, FALSE)
    \/ Lookup("w1")
    \/ Fetch("w1")
    \/ Upload("w1")
    \/ Extract("w1")
    \/ Insert("w1")
    \/ PutExtraction("w1")

\* the ingestion service, the extraction worker behind the queue, and one
\* caller of process_message_by_id
NextPipeline ==
    \/ \E m \in Msgs : Ingest(m)
    \/ IngesterRestart
    \/ JobPop
    \/ JobDownload
    \/ JobExtract
    \/ JobInsert
    \/ JobPutExtraction
    \/ \E m \in Msgs : Call("w1", m, FALSE)
    \/ Lookup("w1")
    \/ Fetch("w1")
    \/ Upload("w1")
    \/ Extract("w1")
    \/ Insert("w1")
    \/ PutExtraction("w1")

\* the ingestion service and the extraction worker behind the queue
NextQueue ==
    \/ \E m \in Msgs : Ingest(m)
    \/ IngesterRestart
    \/ JobPop
    \/ JobDownload
    \/ JobExtract
    \/ JobInsert
    \/ JobPutExtraction

\* one caller of process_message_by_id, with the failures of the database
\* during the idempotency check
NextFailures ==
    \/ \E m \in Msgs, force \in BOOLEAN : Call("w1", m, force)
    \/ Lookup("w1")
    \/ LookupFails("w1")
    \/ Fetch("w1")
    \/ Upload("w1")
    \/ Extract("w1")
    \/ Insert("w1")
    \/ PutExtraction("w1")

Spec == Init /\ [][Next]_vars
SpecFailures == Init /\ [][NextFailures]_vars
SpecSequential == Init /\ [][NextSequential]_vars
SpecPipeline == Init /\ [][NextPipeline]_vars
SpecQueue == Init /\ [][NextQueue]_vars

-----------------------------------------------------------------------------
(* Reconciliation of one Invoice object against a registry that changes *)

\* the invoices handed to reconcile_invoice: as the pipelines store them
\* (status needs_review, extra with the average confidence) and as the tests
\* build them (no status, no extra)
InitialInvoices ==
    { NewInvoice(1, "m1", ex, se[1], se[2]) :
        ex \in ExtractedMaps,
        se \in { <<None, None>>,
                 <<Some("needs_review"),
                   Some([avg_confidence |-> Some(<<85, 1>>), suggestions |-> None])>> } }

InitReconcile ==
    /\ InitPipeline
    /\ InitRegistry
    /\ InitComponents
    /\ invoice \in InitialInvoices
    /\ last = NoCall
    /\ matched = NoCall

NextReconcile ==
    \/ \E row \in VendorRows : AddVendor(row)
    \/ \E i \in 1..MaxVendors : DeleteVendor(i)
    \/ \E row \in ProjectRows : AddProject(row)
    \/ \E i \in 1..MaxProjects : DeleteProject(i)
    \/ Reconcile

SpecReconcile == InitReconcile /\ [][NextReconcile]_vars

-----------------------------------------------------------------------------
(* match_vendor and match_project as functions of the registry and the text *)

\* "", " Acmes", "acme", "a" (ac and am both 66.7), " " (nothing in common
\* with any name) and " AC " (a canonical name but for case and blanks)
VendorQueries ==
    { <<>>, VendorText, <<"a", "c", "m", "e">>, <<"a">>, <<" ">>,
      <<" ", "A", "C", " ">> }
ProjectQueries == { <<>>, ProjectText, ProjectCodeText }

\* Reconciler(db).match_vendor(text)
CallMatchVendor(text) ==
    /\ matched' = [op |-> "match_vendor", text |-> text,
                   result |-> MatchVendor(LoadVendors(vendors), text)]
    /\ UNCHANGED << pipelineVars, componentVars, registryVars, reconcileVars >>

\* Reconciler(db).match_project(text)
CallMatchProject(text) ==
    /\ matched' = [op |-> "match_project", text |-> text,
                   result |-> MatchProject(LoadProjects(projects), text)]
    /\ UNCHANGED << pipelineVars, componentVars, registryVars, reconcileVars >>

NextMatch ==
    \/ \E row \in VendorRows : AddVendor(row)
    \/ \E i \in 1..MaxVendors : DeleteVendor(i)
    \/ \E row \in ProjectRows : AddProject(row)
    \/ \E i \in 1..MaxProjects : DeleteProject(i)
    \/ \E text \in VendorQueries : CallMatchVendor(text)
    \/ \E text \in ProjectQueries : CallMatchProject(text)

SpecMatch == Init /\ [][NextMatch]_vars

-----------------------------------------------------------------------------
(* run_reconciler_worker: the polling loop over the invoices table *)

\* .limit(50), scaled to the size of the table of the model
BatchLimit == 1

\* the rows the query of the loop asks for
NeedsReconciliation ==
    { i \in 1..Len(invoices) :
        invoices[i].reconciliation_status \in { Some("needs_review"), None } }

\* the results a query without ORDER BY may return under LIMIT n
LimitedResults(rows, n) ==
    { S \in SUBSET rows :
        Cardinality(S) = IF Cardinality(rows) < n THEN Cardinality(rows) ELSE n }

\* Reconciler(db) loads the registry, then the query picks the batch; without
\* rows the loop goes to sleep at once
BatchQuery ==
    /\ batch.pc = "query"
    /\ \E S \in LimitedResults(NeedsReconciliation, BatchLimit) :
          batch' = [batch EXCEPT !.pc = IF S = {} THEN "sleep" ELSE "loop",
                                 !.todo = S,
                                 !.objs = [i \in 1..Len(invoices) |-> invoices[i]],
                                 !.loaded = [i \in 1..Len(invoices) |-> invoices[i]],
                                 !.vendors = vendors,
                                 !.projects = projects]
    /\ UNCHANGED << pipelineVars, registryVars, reconcileVars, matched, doc, cat, sync, sched, api >>

\* the batch after reconcile_invoice on its next object
ReconciledNext ==
    LET i == CHOOSE i \in batch.todo : \A j \in batch.todo : i <= j
        r == ReconcileInvoice(batch.objs[i], LoadVendors(batch.vendors),
                              LoadProjects(batch.projects))
    IN  [batch EXCEPT !.todo = batch.todo \ {i},
                      !.objs[i] = r.invoice,
                      !.passed = batch.passed \cup {batch.objs[i].invoice_id}]

\* one turn of "for invoice in invoices": reconcile_invoice on the next object
BatchReconcile ==
    /\ batch.pc = "loop"
    /\ batch.todo # {}
    /\ batch' = ReconciledNext
    /\ UNCHANGED << pipelineVars, registryVars, reconcileVars, matched, doc, cat, sync, sched, api >>

\* the UPDATE of the flush: the columns of the object that differ from the
\* values loaded are written to the row, the other columns of the row stay
Flushed(row, was, obj) ==
    [row EXCEPT
        !.normalized = IF obj.normalized # was.normalized
                       THEN obj.normalized ELSE row.normalized,
        !.reconciliation_status =
            IF obj.reconciliation_status # was.reconciliation_status
            THEN obj.reconciliation_status ELSE row.reconciliation_status,
        !.extra = IF obj.extra # was.extra THEN obj.extra ELSE row.extra]

\* db.commit() after the loop: the objects of the batch are written back
BatchCommit ==
    /\ batch.pc = "loop"
    /\ batch.todo = {}
    /\ invoices' = [i \in 1..Len(invoices) |->
                        IF i <= Len(batch.objs)
                        THEN Flushed(invoices[i], batch.loaded[i], batch.objs[i])
                        ELSE invoices[i]]
    /\ batch' = [batch EXCEPT !.pc = "sleep", !.objs = <<>>, !.loaded = <<>>,
                               !.vendors = <<>>, !.projects = <<>>]
    /\ UNCHANGED << nextId, worker, calls, queue, processed_ids, enqueued, job,
                    registryVars, reconcileVars, matched, doc, cat, sync, sched, api >>

\* time.sleep(30), then the next turn of "while True"
BatchSleep ==
    /\ batch.pc = "sleep"
    /\ batch' = [batch EXCEPT !.pc = "query", !.objs = <<>>, !.loaded = <<>>,
                               !.vendors = <<>>, !.projects = <<>>]
    /\ UNCHANGED << pipelineVars, registryVars, reconcileVars, matched, doc, cat, sync, sched, api >>

\* the steps of the loop around the calls of reconcile_invoice
WorkerLoop == BatchQuery \/ BatchCommit \/ BatchSleep

\* the worker beside one caller of the pipeline, and the vendor that matches
\* the documents of m1 is registered at some time
NextWorker ==
    \/ \E m \in Msgs : Call("w1", m, FALSE)
    \/ Lookup("w1")
    \/ Fetch("w1")
    \/ Upload("w1")
    \/ Extract("w1")
    \/ Insert("w1")
    \/ PutExtraction("w1")
    \/ \E row \in VendorRows : row.vendor_id = 1 /\ AddVendor(row)
    \/ BatchQuery
    \/ BatchReconcile
    \/ BatchCommit
    \/ BatchSleep

\* The loop never stops: "while True" with a sleep between the batches.  A
\* turn of the for loop is possible exactly while objects of the batch are
\* left and each turn takes one, so that weak fairness of BatchReconcile is
\* the statement that the for loop is left again and again.
ForLoopEnds == []<>(~(batch.pc = "loop" /\ batch.todo # {}))

SpecWorker == Init /\ [][NextWorker]_vars /\ WF_vars(WorkerLoop) /\ ForLoopEnds

-----------------------------------------------------------------------------
(* The review page: the buttons that write the status of a record *)

\* "Save Corrections" with the form as the page shows it: the fields and the
\* selections of the record are saved, the status becomes manual
SaveCorrections(i) ==
    /\ i \in 1..Len(invoices)
    /\ invoices' = [invoices EXCEPT
                        ![i].normalized = Some(NormalizedOrEmpty(invoices[i])),
                        ![i].reconciliation_status = Some("manual")]
    /\ UNCHANGED << nextId, worker, calls, queue, processed_ids, enqueued, job,
                    registryVars, reconcileVars, matched, componentVars >>

\* "Mark as Ignored"
MarkIgnored(i) ==
    /\ i \in 1..Len(invoices)
    /\ invoices' = [invoices EXCEPT ![i].reconciliation_status = Some("ignored")]
    /\ UNCHANGED << nextId, worker, calls, queue, processed_ids, enqueued, job,
                    registryVars, reconcileVars, matched, componentVars >>

\* the worker loop beside a reviewer
NextReview ==
    \/ NextWorker
    \/ \E i \in 1..MaxCalls : SaveCorrections(i)
    \/ \E i \in 1..MaxCalls : MarkIgnored(i)

SpecReview == Init /\ [][NextReview]_vars

-----------------------------------------------------------------------------
(* Regular expressions, as far as the rules of total_amount use them.  A rule *)
(* is a sequence of elements; a match is searched as re does, the choices of  *)
(* an element tried in its order of preference (greedy repetitions first).    *)

Lit(s) == [t |-> "lit", s |-> s]
\* cls* and cls+ for the classes \s, \d and [\d,]
Rep(cls, min) == [t |-> "rep", cls |-> cls, min |-> min]
\* c?
OptChar(c) == [t |-> "optchar", c |-> c]
\* (?:a|b)? and (?:a|b)
OptAlt(alts) == [t |-> "alt", alts |-> alts, optional |-> TRUE]
Alt(alts) == [t |-> "alt", alts |-> alts, optional |-> FALSE]
\* the parentheses of group 1
Open == [t |-> "open"]
Close == [t |-> "close"]

IsDigit(c) == c \in { "0", "1", "2", "3", "4", "5", "6", "7", "8", "9" }

InClass(c, cls) ==
    CASE cls = "space" -> IsSpace(c)
      [] cls = "digit" -> IsDigit(c)
      [] cls = "digitcomma" -> IsDigit(c) \/ c = ","

\* the literal s stands in the text at pos, letter case ignored (re.IGNORECASE)
StartsWithAt(text, pos, s) ==
    /\ pos + Len(s) - 1 <= Len(text)
    /\ \A i \in 1..Len(s) : LowerChar(text[pos + i - 1]) = LowerChar(s[i])

\* the text s stands in the text at pos, letter for letter
StartsWithExactly(text, pos, s) ==
    /\ pos + Len(s) - 1 <= Len(text)
    /\ \A i \in 1..Len(s) : text[pos + i - 1] = s[i]

RECURSIVE RunLength(_, _, _)
\* the number of characters of the class from pos on
RunLength(text, pos, cls) ==
    IF pos <= Len(text) /\ InClass(text[pos], cls)
    THEN 1 + RunLength(text, pos + 1, cls)
    ELSE 0

RECURSIVE MatchFrom(_, _, _, _, _)
RECURSIVE TryRep(_, _, _, _, _, _)
RECURSIVE TryAlts(_, _, _, _, _, _)

\* the elements from k on match at pos: the end of the first match in the
\* order of preference and the bounds of group 1, or None
MatchFrom(text, pat, k, pos, cap) ==
    IF k > Len(pat) THEN Some([end |-> pos, cap |-> cap])
    ELSE LET e == pat[k]
         IN  CASE e.t = "lit" ->
                    IF StartsWithAt(text, pos, e.s)
                    THEN MatchFrom(text, pat, k + 1, pos + Len(e.s), cap)
                    ELSE None
               [] e.t = "rep" ->
                    TryRep(text, pat, k, pos, RunLength(text, pos, e.cls), cap)
               [] e.t = "optchar" ->
                    LET taken == IF StartsWithAt(text, pos, <<e.c>>)
                                 THEN MatchFrom(text, pat, k + 1, pos + 1, cap)
                                 ELSE None
                    IN  IF IsSome(taken) THEN taken
                        ELSE MatchFrom(text, pat, k + 1, pos, cap)
               [] e.t = "alt" -> TryAlts(text, pat, k, pos, 1, cap)
               [] e.t = "open" -> MatchFrom(text, pat, k + 1, pos, <<pos, cap[2]>>)
               [] e.t = "close" -> MatchFrom(text, pat, k + 1, pos, <<cap[1], pos>>)

\* a repetition takes n characters, then fewer down to its minimum
TryRep(text, pat, k, pos, n, cap) ==
    IF n < pat[k].min THEN None
    ELSE LET r == MatchFrom(text, pat, k + 1, pos + n, cap)
         IN  IF IsSome(r) THEN r ELSE TryRep(text, pat, k, pos, n - 1, cap)

\* the alternatives in their order, then, for an optional group, none of them
TryAlts(text, pat, k, pos, a, cap) ==
    IF a > Len(pat[k].alts)
    THEN IF pat[k].optional THEN MatchFrom(text, pat, k + 1, pos, cap) ELSE None
    ELSE LET taken == IF StartsWithAt(text, pos, pat[k].alts[a])
                      THEN MatchFrom(text, pat, k + 1, pos + Len(pat[k].alts[a]), cap)
                      ELSE None
         IN  IF IsSome(taken) THEN taken ELSE TryAlts(text, pat, k, pos, a + 1, cap)

RECURSIVE FindIter(_, _, _, _)
\* re.finditer(pattern, text): the matches from left to right, none overlapping
FindIter(text, pat, pos, acc) ==
    IF pos > Len(text) THEN acc
    ELSE LET r == MatchFrom(text, pat, 1, pos, <<0, 0>>)
         IN  IF IsSome(r)
             THEN FindIter(text, pat, IF Get(r).end > pos THEN Get(r).end ELSE pos + 1,
                           Append(acc, [start |-> pos, end |-> Get(r).end,
                                        cap |-> Get(r).cap]))
             ELSE FindIter(text, pat, pos + 1, acc)

RECURSIVE Contains(_, _, _)
\* needle in hay, searched from pos on
Contains(hay, needle, pos) ==
    IF pos + Len(needle) - 1 > Len(hay) THEN FALSE
    ELSE \/ \A i \in 1..Len(needle) : hay[pos + i - 1] = needle[i]
         \/ Contains(hay, needle, pos + 1)

-----------------------------------------------------------------------------
(* InvoiceExtractor: the rules of total_amount, extract_field and the part   *)
(* of extract_all_fields that decides total_amount.  Amounts and confidences *)
(* are kept in hundredths.                                                    *)

Spaces == Rep("space", 0)
\* ([\d,]+\.?\d*)
Number == << Open, Rep("digitcomma", 1), OptChar("."), Rep("digit", 0), Close >>
\* \s*:?\s*\$?\s*([\d,]+\.?\d*)
LabelTail == << Spaces, OptChar(":"), Spaces, OptChar("$"), Spaces >> \o Number

W_order == <<"o", "r", "d", "e", "r">>
W_total == <<"t", "o", "t", "a", "l">>
W_grand == <<"g", "r", "a", "n", "d">>
W_amount == <<"a", "m", "o", "u", "n", "t">>
W_balance == <<"b", "a", "l", "a", "n", "c", "e">>
W_due == <<"d", "u", "e">>
W_charged == <<"c", "h", "a", "r", "g", "e", "d">>
W_paid == <<"p", "a", "i", "d">>
W_invoice == <<"i", "n", "v", "o", "i", "c", "e">>
W_subtotal == <<"s", "u", "b", "t", "o", "t", "a", "l">>

\* self.patterns['total_amount'], in the order of the list
TotalAmountPatterns ==
    << << Lit(W_order), Rep("space", 1), Lit(W_total) >> \o LabelTail,
       << Lit(W_order), Rep("space", 1), Lit(W_total), Rep("space", 1),
          OptChar("$"), Spaces >> \o Number,
       << Lit(W_grand), Rep("space", 1), Lit(W_total) >> \o LabelTail,
       << Lit(W_amount), Rep("space", 1), Lit(W_due) >> \o LabelTail,
       << Lit(W_balance), Rep("space", 1), Lit(W_due) >> \o LabelTail,
       << Lit(W_charged) >> \o LabelTail,
       << Lit(W_paid), Spaces, OptChar("$"), Spaces >> \o Number,
       << Lit(W_total), Spaces, OptAlt(<< W_amount, W_due >>) >> \o LabelTail,
       << Lit(W_invoice), Rep("space", 1), Lit(W_total) >> \o LabelTail,
       << Lit(W_total) >> \o LabelTail,
       << Lit(<<"$">>), Spaces >> \o Number
          \o << Spaces, Alt(<< W_total, W_paid, W_due >>) >> >>

DigitValue ==
    [c \in { "0", "1", "2", "3", "4", "5", "6", "7", "8", "9" } |->
        CASE c = "0" -> 0 [] c = "1" -> 1 [] c = "2" -> 2 [] c = "3" -> 3
          [] c = "4" -> 4 [] c = "5" -> 5 [] c = "6" -> 6 [] c = "7" -> 7
          [] c = "8" -> 8 [] c = "9" -> 9]

RECURSIVE WithoutCommas(_)
\* value.replace(',', '')
WithoutCommas(v) ==
    IF v = <<>> THEN <<>>
    ELSE IF Head(v) = "," THEN WithoutCommas(Tail(v))
         ELSE <<Head(v)>> \o WithoutCommas(Tail(v))

RECURSIVE DigitsValue(_, _)
DigitsValue(v, acc) ==
    IF v = <<>> THEN acc ELSE DigitsValue(Tail(v), 10 * acc + DigitValue[Head(v)])

\* float(value_clean) for digits with at most one point and at most two digits
\* behind it, in hundredths; None where float raises (no digit at all)
ParseFloat(v) ==
    LET dots == { i \in 1..Len(v) : v[i] = "." }
        dot == IF dots = {} THEN Len(v) + 1 ELSE CHOOSE i \in dots : TRUE
        whole == SubSeq(v, 1, dot - 1)
        frac == SubSeq(v, dot + 1, Len(v))
    IN  IF Len(whole) + Len(frac) = 0 THEN None
        ELSE Some(100 * DigitsValue(whole, 0)
                  + (IF Len(frac) = 1 THEN 10 ELSE 1) * DigitsValue(frac, 0))

\* the priority of a match, from its lower-cased text
PriorityOf(match_text) ==
    IF Contains(match_text, W_order \o <<" ">> \o W_total, 1) THEN 100
    ELSE IF Contains(match_text, W_grand \o <<" ">> \o W_total, 1) THEN 90
    ELSE IF \/ Contains(match_text, W_amount \o <<" ">> \o W_due, 1)
            \/ Contains(match_text, W_balance \o <<" ">> \o W_due, 1) THEN 85
    ELSE IF Contains(match_text, W_charged, 1) THEN 80
    ELSE IF Contains(match_text, W_subtotal, 1) THEN 30
    ELSE 50

RECURSIVE CollectMatches(_, _, _, _)
\* the inner loop of extract_field: the matches of one rule that parse
CollectMatches(text, p, ms, acc) ==
    IF ms = <<>> THEN acc
    ELSE LET m == Head(ms)
             value == ParseFloat(WithoutCommas(SubSeq(text, m.cap[1], m.cap[2] - 1)))
             found == [value |-> Get(value),
                       priority |-> PriorityOf(Lower(SubSeq(text, m.start, m.end - 1))),
                       start |-> m.start,
                       pattern |-> p]
         IN  CollectMatches(text, p, Tail(ms),
                            IF IsSome(value) THEN Append(acc, found) ELSE acc)

RECURSIVE AllMatches(_, _, _)
\* the outer loop: every rule, in the order of the list
AllMatches(text, p, acc) ==
    IF p > Len(TotalAmountPatterns) THEN acc
    ELSE AllMatches(text, p + 1,
            CollectMatches(text, p, FindIter(text, TotalAmountPatterns[p], 1, <<>>), acc))

RECURSIVE MaxByPriority(_, _)
\* max(all_matches, key=priority): the first of the matches of highest priority
MaxByPriority(ms, best) ==
    IF ms = <<>> THEN best
    ELSE MaxByPriority(Tail(ms), IF Head(ms).priority > best.priority THEN Head(ms) ELSE best)

\* "priority > 80"
ConfidenceAbove(priority) == IF priority > 80 THEN 95 ELSE 85

\* 0.95 if priority >= 80 else 0.85
ConfidenceOf(priority) == IF priority >= 80 THEN 95 ELSE 85

\* extract_field('total_amount', text)
ExtractTotalAmount(text) ==
    LET all_matches == AllMatches(text, 1, <<>>)
    IN  IF all_matches = <<>> THEN None
        ELSE LET best_match == MaxByPriority(Tail(all_matches), Head(all_matches))
             IN  Some([value |-> best_match.value,
                       confidence |-> ConfidenceOf(best_match.priority),
                       priority |-> best_match.priority,
                       pattern |-> best_match.pattern])

\* the length of the summary section at the end of a text
SummaryChars == 2000

AttachmentMarker == <<"-", "-", "-", " ", "A", "t", "t", "a", "c", "h", "m", "e", "n", "t", ":">>

RECURSIVE SplitOn(_, _, _, _)
\* text.split(sep): the parts before, between and behind the separators
SplitOn(text, sep, pos, part) ==
    IF pos > Len(text) THEN << part >>
    ELSE IF StartsWithExactly(text, pos, sep)
         THEN << part >> \o SplitOn(text, sep, pos + Len(sep), <<>>)
         ELSE SplitOn(text, sep, pos + 1, Append(part, text[pos]))

RECURSIVE JoinWith(_, _)
\* sep.join(parts)
JoinWith(parts, sep) ==
    IF parts = <<>> THEN <<>>
    ELSE IF Len(parts) = 1 THEN parts[1]
         ELSE parts[1] \o sep \o JoinWith(Tail(parts), sep)

\* text[-n:] if len(text) > n else text
LastChars(text, n) ==
    IF Len(text) > n THEN SubSeq(text, Len(text) - n + 1, Len(text)) ELSE text

\* extract_all_fields, as far as it decides extracted['total_amount']: the
\* attachment content first, then the text before the first attachment, then
\* the summary section when nothing confident was found
ExtractAllFieldsTotal(text) ==
    LET parts == SplitOn(text, AttachmentMarker, 1, <<>>)
        email_body == parts[1]
        pdf_content == IF Len(parts) > 1 THEN JoinWith(Tail(parts), <<" ">>) ELSE <<>>
        search_text == IF pdf_content # <<>> THEN pdf_content ELSE text
        first == ExtractTotalAmount(search_text)
        result == IF IsSome(first) THEN first ELSE ExtractTotalAmount(email_body)
        summary_result == ExtractTotalAmount(LastChars(text, SummaryChars))
    IN  IF IsSome(result) /\ Get(result).confidence >= 90 THEN result
        ELSE IF /\ IsSome(summary_result)
                /\ (IsSome(result) =>
                        Get(summary_result).confidence > Get(result).confidence)
             THEN summary_result
             ELSE result

\* The lines of the documents: a label and an amount each
DocLines ==
    { [label |-> "subtotal", amount |-> 10000,
       text |-> <<"S", "u", "b", "t", "o", "t", "a", "l", ":", " ", "$", "1", "0", "0", ".", "0", "0">>],
      [label |-> "order_total", amount |-> 12000,
       text |-> <<"O", "r", "d", "e", "r", " ", "T", "o", "t", "a", "l", ":", " ", "$", "1", "2", "0", ".", "0", "0">>],
      [label |-> "total", amount |-> 11000,
       text |-> <<"T", "o", "t", "a", "l", ":", " ", "$", "1", "1", "0", ".", "0", "0">>],
      [label |-> "grand_total", amount |-> 9050,
       text |-> <<"G", "r", "a", "n", "d", " ", "T", "o", "t", "a", "l", ":", " ", "$", "9", "0", ".", "5", "0">>],
      [label |-> "amount_due", amount |-> 8500,
       text |-> <<"A", "m", "o", "u", "n", "t", " ", "D", "u", "e", ":", " ", "$", "8", "5">>],
      [label |-> "balance_due", amount |-> 8600,
       text |-> <<"B", "a", "l", "a", "n", "c", "e", " ", "D", "u", "e", " ", "$", "8", "6", ".", "0", "0">>],
      [label |-> "charged", amount |-> 108000,
       text |-> <<"C", "h", "a", "r", "g", "e", "d", ":", " ", "$", "1", ",", "0", "8", "0", ".", "0", "0">>],
      [label |-> "paid", amount |-> 5000,
       text |-> <<"P", "a", "i", "d", " ", "$", "5", "0", ".", "0", "0">>] }

\* f"--- Attachment: {filename} ---\n{text}"
AttachmentText(filename, text) ==
    AttachmentMarker \o <<" ">> \o filename \o <<" ", "-", "-", "-", "\n">> \o text

FileA == <<"a", ".", "p", "d", "f">>
FileB == <<"b", ".", "p", "d", "f">>

\* the documents: one line or two lines in either order, as a plain text, as
\* the text of one attachment and as the texts of two attachments
Documents ==
    { [lines |-> << a >>, text |-> a.text] : a \in DocLines }
    \cup
    { [lines |-> << a >>, text |-> AttachmentText(FileA, a.text)] : a \in DocLines }
    \cup
    { [lines |-> << l[1], l[2] >>, text |-> l[1].text \o <<"\n">> \o l[2].text] :
        l \in { m \in DocLines \X DocLines : m[1] # m[2] } }
    \cup
    { [lines |-> << l[1], l[2] >>,
       text |-> AttachmentText(FileA, l[1].text \o <<"\n">> \o l[2].text)] :
        l \in { m \in DocLines \X DocLines : m[1] # m[2] } }
    \cup
    { [lines |-> << l[1], l[2] >>,
       text |-> AttachmentText(FileA, l[1].text) \o <<"\n">>
                    \o AttachmentText(FileB, l[2].text)] :
        l \in { m \in DocLines \X DocLines : m[1] # m[2] } }

\* extractor.extract_field('total_amount', text)
CallExtractField(d) ==
    /\ doc.op = "none"
    /\ doc' = [op |-> "extract_field", lines |-> d.lines, text |-> d.text,
               result |-> ExtractTotalAmount(d.text)]
    /\ UNCHANGED << pipelineVars, registryVars, reconcileVars, matched, batch, cat, sync, sched, api >>

\* extractor.extract_all_fields(text, attachments)
CallExtractAllFields(d) ==
    /\ doc.op = "none"
    /\ doc' = [op |-> "extract_all_fields", lines |-> d.lines, text |-> d.text,
               result |-> ExtractAllFieldsTotal(d.text)]
    /\ UNCHANGED << pipelineVars, registryVars, reconcileVars, matched, batch, cat, sync, sched, api >>

\* the caller has taken the result; the extractor keeps no state
ExtractDone ==
    /\ doc.op # "none"
    /\ doc' = [op |-> "none"]
    /\ UNCHANGED << pipelineVars, registryVars, reconcileVars, matched, batch, cat, sync, sched, api >>

NextExtract ==
    \/ \E d \in Documents : CallExtractField(d)
    \/ \E d \in Documents : CallExtractAllFields(d)
    \/ ExtractDone

SpecExtract == Init /\ [][NextExtract]_vars

-----------------------------------------------------------------------------
(* The item categorizer: categorize_items_with_ollama and its keyword        *)
(* fallback.  A category and a BOM number are texts.                         *)

DEFAULT_CATEGORIES ==
    << <<"E", "l", "e", "c", "t", "r", "i", "c", "a", "l">>,
       <<"H", "a", "r", "d", "w", "a", "r", "e">>,
       <<"T", "o", "o", "l", "s">>,
       <<"P", "l", "u", "m", "b", "i", "n", "g">>,
       <<"H", "V", "A", "C">>,
       <<"M", "a", "t", "e", "r", "i", "a", "l", "s">>,
       <<"S", "a", "f", "e", "t", "y">>,
       <<"F", "a", "s", "t", "e", "n", "e", "r", "s">>,
       <<"L", "u", "m", "b", "e", "r">>,
       <<"C", "o", "n", "c", "r", "e", "t", "e">>,
       <<"O", "t", "h", "e", "r">> >>

Other == <<"O", "t", "h", "e", "r">>

\* the keyword table, in the order in which the dict is iterated
category_keywords ==
    <<
       [category |-> <<"E", "l", "e", "c", "t", "r", "i", "c", "a", "l">>,
        keywords |-> << <<"w", "i", "r", "e">>,
                     <<"o", "u", "t", "l", "e", "t">>,
                     <<"s", "w", "i", "t", "c", "h">>,
                     <<"b", "o", "x">>,
                     <<"b", "r", "e", "a", "k", "e", "r">>,
                     <<"c", "i", "r", "c", "u", "i", "t">>,
                     <<"e", "l", "e", "c", "t", "r", "i", "c", "a", "l">>,
                     <<"c", "a", "b", "l", "e">>,
                     <<"c", "o", "n", "d", "u", "i", "t">>,
                     <<"o", "c", "t", "a", "g", "o", "n">>,
                     <<"g", "a", "n", "g">> >>],
       [category |-> <<"H", "a", "r", "d", "w", "a", "r", "e">>,
        keywords |-> << <<"s", "c", "r", "e", "w">>,
                     <<"n", "a", "i", "l">>,
                     <<"b", "o", "l", "t">>,
                     <<"h", "i", "n", "g", "e">>,
                     <<"h", "a", "n", "d", "l", "e">>,
                     <<"b", "r", "a", "c", "k", "e", "t">>,
                     <<"b", "r", "a", "c", "k", "e", "t">>,
                     <<"h", "a", "r", "d", "w", "a", "r", "e">> >>],
       [category |-> <<"T", "o", "o", "l", "s">>,
        keywords |-> << <<"h", "a", "m", "m", "e", "r">>,
                     <<"d", "r", "i", "l", "l">>,
                     <<"s", "a", "w">>,
                     <<"w", "r", "e", "n", "c", "h">>,
                     <<"t", "o", "o", "l">>,
                     <<"b", "i", "t">>,
                     <<"p", "u", "l", "l", "e", "r">> >>],
       [category |-> <<"P", "l", "u", "m", "b", "i", "n", "g">>,
        keywords |-> << <<"p", "i", "p", "e">>,
                     <<"f", "i", "t", "t", "i", "n", "g">>,
                     <<"f", "a", "u", "c", "e", "t">>,
                     <<"v", "a", "l", "v", "e">>,
                     <<"p", "l", "u", "m", "b", "i", "n", "g">>,
                     <<"p", "v", "c">> >>],
       [category |-> <<"H", "V", "A", "C">>,
        keywords |-> << <<"d", "u", "c", "t">>,
                     <<"v", "e", "n", "t">>,
                     <<"f", "i", "l", "t", "e", "r">>,
                     <<"t", "h", "e", "r", "m", "o", "s", "t", "a", "t">>,
                     <<"h", "v", "a", "c">> >>],
       [category |-> <<"M", "a", "t", "e", "r", "i", "a", "l", "s">>,
        keywords |-> << <<"d", "r", "y", "w", "a", "l", "l">>,
                     <<"i", "n", "s", "u", "l", "a", "t", "i", "o", "n">>,
                     <<"m", "a", "t", "e", "r", "i", "a", "l">> >>],
       [category |-> <<"S", "a", "f", "e", "t", "y">>,
        keywords |-> << <<"g", "l", "o", "v", "e">>,
                     <<"h", "e", "l", "m", "e", "t">>,
                     <<"g", "o", "g", "g", "l", "e">>,
                     <<"s", "a", "f", "e", "t", "y">> >>],
       [category |-> <<"F", "a", "s", "t", "e", "n", "e", "r", "s">>,
        keywords |-> << <<"s", "c", "r", "e", "w">>,
                     <<"n", "a", "i", "l">>,
                     <<"b", "o", "l", "t">>,
                     <<"w", "a", "s", "h", "e", "r">>,
                     <<"f", "a", "s", "t", "e", "n", "e", "r">> >>],
       [category |-> <<"L", "u", "m", "b", "e", "r">>,
        keywords |-> << <<"l", "u", "m", "b", "e", "r">>,
                     <<"w", "o", "o", "d">>,
                     <<"b", "o", "a", "r", "d">>,
                     <<"p", "l", "y", "w", "o", "o", "d">>,
                     <<"2", "x", "4">>,
                     <<"2", "x", "6">> >>],
       [category |-> <<"C", "o", "n", "c", "r", "e", "t", "e">>,
        keywords |-> << <<"c", "e", "m", "e", "n", "t">>,
                     <<"c", "o", "n", "c", "r", "e", "t", "e">>,
                     <<"a", "g", "g", "r", "e", "g", "a", "t", "e">>,
                     <<"a", "d", "d", "i", "t", "i", "v", "e">> >>] >>

LowerToUpper ==
    [a |-> "A", b |-> "B", c |-> "C", d |-> "D", e |-> "E", f |-> "F", g |-> "G",
     h |-> "H", i |-> "I", j |-> "J", k |-> "K", l |-> "L", m |-> "M", n |-> "N",
     o |-> "O", p |-> "P", q |-> "Q", r |-> "R", s |-> "S", t |-> "T", u |-> "U",
     v |-> "V", w |-> "W", x |-> "X", y |-> "Y", z |-> "Z"]

\* str.upper()
Upper(s) ==
    [i \in 1..Len(s) |-> IF s[i] \in DOMAIN LowerToUpper THEN LowerToUpper[s[i]] ELSE s[i]]

DigitChar == << "0", "1", "2", "3", "4", "5", "6", "7", "8", "9" >>

RECURSIVE Decimal(_)
\* the decimal digits of a natural number
Decimal(n) ==
    IF n < 10 THEN << DigitChar[n + 1] >>
    ELSE Decimal(n \div 10) \o << DigitChar[(n % 10) + 1] >>

RECURSIVE ZeroPad(_, _)
\* the format :03d pads with zeros to the width and cuts nothing
ZeroPad(digits, width) ==
    IF Len(digits) >= width THEN digits ELSE ZeroPad(<<"0">> \o digits, width)

\* f"{category[:3].upper()}-{n:03d}"
BomNumber(category, n) ==
    Upper(Take(category, 3)) \o <<"-">> \o ZeroPad(Decimal(n), 3)

IsDefaultCategory(c) == \E i \in 1..Len(DEFAULT_CATEGORIES) : DEFAULT_CATEGORIES[i] = c

RECURSIVE KeywordCategory(_, _)
\* the first category of the table with a keyword in the description
KeywordCategory(desc, k) ==
    IF k > Len(category_keywords) THEN Other
    ELSE IF \E j \in 1..Len(category_keywords[k].keywords) :
                Contains(desc, category_keywords[k].keywords[j], 1)
         THEN category_keywords[k].category
         ELSE KeywordCategory(desc, k + 1)

\* str(item.get('description', '')).lower()
DescriptionOf(item) == IF IsSome(item.description) THEN Get(item.description) ELSE <<>>

\* one counter for all the categories
NextCountShared(counter, category) ==
    1 + SumSeq([i \in 1..Len(DEFAULT_CATEGORIES) |-> counter[DEFAULT_CATEGORIES[i]]])

\* category_bom_counter[category] += 1, from 0 for a category not yet seen
NextCount(counter, category) == counter[category] + 1

NoCounts == [c \in { DEFAULT_CATEGORIES[i] : i \in 1..Len(DEFAULT_CATEGORIES) } |-> 0]

RECURSIVE AssignBom(_, _, _, _, _)
\* the loop over the items once their categories are known: the counter of
\* the category goes up and the item is copied with category and bom_number
AssignBom(items, categories, i, counter, out) ==
    IF i > Len(items) THEN out
    ELSE LET category == categories[i]
             n == NextCount(counter, category)
         IN  AssignBom(items, categories, i + 1, [counter EXCEPT ![category] = n],
                       Append(out, [description |-> items[i].description,
                                    quantity |-> items[i].quantity,
                                    category |-> category,
                                    bom_number |-> BomNumber(category, n)]))

\* _categorize_with_keywords(line_items)
CategorizeWithKeywords(items) ==
    AssignBom(items,
              [i \in 1..Len(items) |-> KeywordCategory(Lower(DescriptionOf(items[i])), 1)],
              1, NoCounts, <<>>)

\* line_items.index(item) + 1: the position of the first item equal to it
FirstIndexOf(items, i) ==
    CHOOSE j \in 1..i : items[j] = items[i] /\ \A h \in 1..(j - 1) : items[h] # items[i]

RECURSIVE LookupCategory(_, _, _)
\* "for cat_entry in categories": the category of the first entry with the
\* item's index, "Other" without one; cat_entry.get raises on an entry that
\* is not an object
LookupCategory(entries, item_idx, k) ==
    IF k > Len(entries) THEN [raised |-> FALSE, category |-> Other]
    ELSE IF ~entries[k].is_dict THEN [raised |-> TRUE, category |-> Other]
    ELSE IF entries[k].item_index = Some(item_idx)
         THEN [raised |-> FALSE,
               category |-> IF IsSome(entries[k].category)
                            THEN Get(entries[k].category) ELSE Other]
         ELSE LookupCategory(entries, item_idx, k + 1)

\* "if category not in DEFAULT_CATEGORIES: category = 'Other'"
Validated(category) == IF IsDefaultCategory(category) THEN category ELSE Other

\* categorize_items_with_ollama(line_items), given whether the library was
\* imported and what the classifier replies
CategorizeItemsWithOllama(items, available, reply) ==
    IF ~available THEN CategorizeWithKeywords(items)
    ELSE IF items = <<>> THEN <<>>
    ELSE IF reply.kind # "json" THEN CategorizeWithKeywords(items)
    ELSE LET found == [i \in 1..Len(items) |->
                          LookupCategory(reply.entries, FirstIndexOf(items, i), 1)]
         IN  IF \E i \in 1..Len(items) : found[i].raised
             THEN CategorizeWithKeywords(items)
             ELSE AssignBom(items,
                            [i \in 1..Len(items) |-> Validated(found[i].category)],
                            1, NoCounts, <<>>)

\* Bounds of the categorizer's inputs
MaxItems == 2
MaxEntries == 2

Item(description) == [description |-> Some(description), quantity |-> 1]

\* the line items of the tables: wire, bolt, paint (no keyword), and a row
\* without a description
LineItems ==
    { Item(<<"W", "i", "r", "e">>), Item(<<"B", "o", "l", "t">>), Item(<<"P", "a", "i", "n", "t">>),
      [description |-> None, quantity |-> 1] }

\* five items that the keywords put into Electrical, Electrical, Hardware,
\* Electrical, Other
FiveItems ==
    << Item(<<"W", "i", "r", "e">>), Item(<<"O", "u", "t", "l", "e", "t", " ", "b", "o", "x">>), Item(<<"B", "o", "l", "t">>),
       Item(<<"C", "a", "b", "l", "e">>), Item(<<"P", "a", "i", "n", "t">>) >>

SeqsUpTo(S, n) == UNION { [1..k -> S] : k \in 0..n }

ItemLists == SeqsUpTo(LineItems, MaxItems) \cup { FiveItems }

Entry(index, category) == [is_dict |-> TRUE, item_index |-> index, category |-> category]

\* the entries of a reply: categories of the set, one outside it, an entry
\* without a category, one without an index, and one that is not an object
ReplyEntries ==
    { Entry(Some(1), Some(<<"T", "o", "o", "l", "s">>)),
      Entry(Some(2), Some(<<"E", "l", "e", "c", "t", "r", "i", "c", "a", "l">>)),
      Entry(Some(1), Some(<<"G", "a", "d", "g", "e", "t", "s">>)),
      Entry(Some(2), None),
      Entry(None, Some(<<"H", "a", "r", "d", "w", "a", "r", "e">>)),
      [is_dict |-> FALSE, item_index |-> None, category |-> None] }

\* a reply for the five items: Electrical, Electrical, Hardware, Electrical,
\* and nothing for the fifth
FiveEntries ==
    << Entry(Some(1), Some(<<"E", "l", "e", "c", "t", "r", "i", "c", "a", "l">>)), Entry(Some(2), Some(<<"E", "l", "e", "c", "t", "r", "i", "c", "a", "l">>)),
       Entry(Some(3), Some(<<"H", "a", "r", "d", "w", "a", "r", "e">>)), Entry(Some(4), Some(<<"E", "l", "e", "c", "t", "r", "i", "c", "a", "l">>)) >>

\* what the classifier call may give: an exception, a text without a JSON
\* array, a text that json.loads rejects, or an array of entries
Replies ==
    { [kind |-> k, entries |-> <<>>] : k \in { "raise", "no_array", "invalid_json" } }
    \cup
    { [kind |-> "json", entries |-> es] :
        es \in SeqsUpTo(ReplyEntries, MaxEntries) \cup { FiveEntries } }

\* categorize_items_with_ollama(line_items) is called
CallCategorize(items, available, reply) ==
    /\ cat.op = "none"
    /\ cat' = [op |-> "categorize", items |-> items, available |-> available,
               reply |-> reply,
               result |-> CategorizeItemsWithOllama(items, available, reply)]
    /\ UNCHANGED << pipelineVars, registryVars, reconcileVars, matched, batch, doc, sync, sched, api >>

\* the caller has taken the result; the categorizer keeps no state
CategorizeDone ==
    /\ cat.op # "none"
    /\ cat' = [op |-> "none"]
    /\ UNCHANGED << pipelineVars, registryVars, reconcileVars, matched, batch, doc, sync, sched, api >>

NextCategorize ==
    \/ \E items \in ItemLists, reply \in Replies : CallCategorize(items, TRUE, reply)
    \/ \E items \in ItemLists : CallCategorize(items, FALSE, [kind |-> "raise", entries |-> <<>>])
    \/ CategorizeDone

SpecCategorize == Init /\ [][NextCategorize]_vars

-----------------------------------------------------------------------------
(* The document text extractor: extract_text_from_pdf, extract_text_from_image
   and the attachment loop of process_message_by_id *)

\* below this length of the digital text the pages are read by OCR
OcrThreshold == 100

\* f"--- Page {page_num} ---\n{page_text}"
PageText(page_num, page_text) ==
    <<"-", "-", "-", " ", "P", "a", "g", "e", " ">> \o Decimal(page_num) \o <<" ", "-", "-", "-", "\n">> \o page_text

RECURSIVE TextParts(_, _)
\* text_parts: a part for every page whose text is not empty
TextParts(pages, page_num) ==
    IF page_num > Len(pages) THEN <<>>
    ELSE (IF pages[page_num].text # <<>>
          THEN << PageText(page_num, pages[page_num].text) >> ELSE <<>>)
         \o TextParts(pages, page_num + 1)

\* full_text = "\n".join(text_parts)
DigitalText(pages) == JoinWith(TextParts(pages, 1), <<"\n">>)

RECURSIVE TableItems(_, _)
\* the line items of the tables of the pages, in page order
TableItems(pages, page_num) ==
    IF page_num > Len(pages) THEN <<>>
    ELSE pages[page_num].items \o TableItems(pages, page_num + 1)

\* "\n".join(ocr_texts): one OCR text for each page image
OcrText(pdf) == JoinWith([i \in 1..Len(pdf.pages) |-> pdf.ocr_text], <<"\n">>)

\* the threshold taken as inclusive
LowTextInclusive(full_text) == Len(Strip(full_text)) <= OcrThreshold

\* "if len(full_text.strip()) < 100"
LowText(full_text) == Len(Strip(full_text)) < OcrThreshold

Raised == [raised |-> TRUE, text |-> <<>>, line_items |-> <<>>, ocr |-> TRUE]
Returned(text, line_items, ocr) ==
    [raised |-> FALSE, text |-> text, line_items |-> line_items, ocr |-> ocr]

\* the body of the try: the digital parse, and OCR when it gives little text
DigitalParse(pdf) ==
    IF pdf.parse = "raise" THEN [Raised EXCEPT !.ocr = FALSE]
    ELSE LET full_text == DigitalText(pdf.pages)
         IN  IF LowText(full_text)
             THEN IF pdf.ocr = "raise" THEN Raised
                  ELSE Returned(OcrText(pdf), TableItems(pdf.pages, 1), TRUE)
             ELSE Returned(full_text, TableItems(pdf.pages, 1), FALSE)

\* the handler without its inner try
OcrFallbackUnguarded(pdf) ==
    IF pdf.ocr = "raise" THEN Raised ELSE Returned(OcrText(pdf), <<>>, TRUE)

\* "except Exception": OCR of the pages, and "", [] when OCR fails too
OcrFallback(pdf) ==
    IF pdf.ocr = "raise" THEN Returned(<<>>, <<>>, TRUE)
    ELSE Returned(OcrText(pdf), <<>>, TRUE)

\* extract_text_from_pdf(pdf_bytes)
ExtractTextFromPdf(pdf) ==
    LET tried == DigitalParse(pdf)
    IN  IF tried.raised THEN OcrFallback(pdf) ELSE tried

\* extract_text_from_image(image_bytes)
ExtractTextFromImage(image) ==
    IF image.ocr = "raise" THEN Returned(<<>>, <<>>, TRUE)
    ELSE Returned(image.ocr_text, <<>>, TRUE)

\* Bounds of the documents
MaxPages == 2
MaxAttachments == 2

Xs(n) == [i \in 1..n |-> "x"]

\* the texts of a page: none, 40 characters, 84 and 85 (99 and 100 with the
\* marker of the page), 84 followed by blanks, and 485 (500 with the marker)
PageTexts ==
    { <<>>, Xs(40), Xs(84), Xs(85), Xs(84) \o <<" ", " ", " ", " ", " ">>, Xs(485) }

Pages ==
    { [text |-> t, items |-> it] :
        t \in PageTexts, it \in { <<>>, << Item(<<"W", "i", "r", "e">>) >> } }

ScanText == <<"s", "c", "a", "n">>

Pdfs ==
    { [pages |-> ps, parse |-> parse, ocr |-> ocr, ocr_text |-> ScanText] :
        ps \in SeqsUpTo(Pages, MaxPages), parse \in { "ok", "raise" },
        ocr \in { "ok", "raise" } }

Images == { [ocr |-> ocr, ocr_text |-> ScanText] : ocr \in { "ok", "raise" } }

\* extractor.extract_text_from_pdf(file_bytes)
CallExtractTextFromPdf(pdf) ==
    /\ doc.op = "none"
    /\ doc' = [op |-> "extract_text_from_pdf", pdf |-> pdf,
               result |-> ExtractTextFromPdf(pdf)]
    /\ UNCHANGED << pipelineVars, registryVars, reconcileVars, matched, batch, cat, sync, sched, api >>

\* extractor.extract_text_from_image(file_bytes)
CallExtractTextFromImage(image) ==
    /\ doc.op = "none"
    /\ doc' = [op |-> "extract_text_from_image", image |-> image,
               result |-> ExtractTextFromImage(image)]
    /\ UNCHANGED << pipelineVars, registryVars, reconcileVars, matched, batch, cat, sync, sched, api >>

\* the callers of the two extraction functions
NextText ==
    \/ \E pdf \in Pdfs : CallExtractTextFromPdf(pdf)
    \/ \E image \in Images : CallExtractTextFromImage(image)
    \/ ExtractDone

SpecText == Init /\ [][NextText]_vars

FileC == <<"c", ".", "p", "n", "g">>
FileD == <<"d", ".", "t", "x", "t">>

\* the attachments of a message: a digital PDF with a table, a PDF that
\* neither parses nor renders, a scanned PDF whose OCR fails, an image that
\* cannot be opened, one that can, and a file of another type
Attachments ==
    { [filename |-> FileA, kind |-> "pdf",
       file |-> [pages |-> << [text |-> Xs(85), items |-> << Item(<<"W", "i", "r", "e">>) >>] >>,
                 parse |-> "ok", ocr |-> "ok", ocr_text |-> ScanText]],
      [filename |-> FileB, kind |-> "pdf",
       file |-> [pages |-> <<>>, parse |-> "raise", ocr |-> "raise", ocr_text |-> ScanText]],
      [filename |-> FileB, kind |-> "pdf",
       file |-> [pages |-> << [text |-> <<>>, items |-> <<>>] >>,
                 parse |-> "ok", ocr |-> "raise", ocr_text |-> ScanText]],
      [filename |-> FileC, kind |-> "image",
       file |-> [ocr |-> "raise", ocr_text |-> ScanText]],
      [filename |-> FileC, kind |-> "image",
       file |-> [ocr |-> "ok", ocr_text |-> ScanText]],
      [filename |-> FileD, kind |-> "other",
       file |-> [ocr |-> "raise", ocr_text |-> ScanText]] }

RECURSIVE AttachmentLoop(_, _, _)
\* "for att_path in attachments": the text and the line items of every PDF
\* and image; an attachment whose extraction raises is logged and left out;
\* returned notes what the extractor gave for each of them
AttachmentLoop(atts, k, acc) ==
    IF k > Len(atts) THEN acc
    ELSE LET att == atts[k]
             got == IF att.kind = "pdf" THEN ExtractTextFromPdf(att.file)
                    ELSE ExtractTextFromImage(att.file)
         IN  IF att.kind = "other" THEN AttachmentLoop(atts, k + 1, acc)
             ELSE IF got.raised
                  THEN AttachmentLoop(atts, k + 1,
                         [acc EXCEPT !.returned = Append(acc.returned, got)])
                  ELSE AttachmentLoop(atts, k + 1,
                         [pdf_texts |-> Append(acc.pdf_texts,
                                               AttachmentText(att.filename, got.text)),
                          all_line_items |-> acc.all_line_items \o got.line_items,
                          returned |-> Append(acc.returned, got)])

\* the extraction step of process_message_by_id with its attachments spelled
\* out: the attachment loop, then the fields of the attachment text
ExtractAttachments(w, atts) ==
    /\ worker[w].pc = "extract"
    /\ doc.op = "none"
    /\ LET read == AttachmentLoop(atts, 1, [pdf_texts |-> <<>>, all_line_items |-> <<>>,
                                            returned |-> <<>>])
       IN  doc' = [op |-> "attachments", attachments |-> atts,
                   returned |-> read.returned,
                   pdf_texts |-> read.pdf_texts,
                   pdf_only_text |-> JoinWith(read.pdf_texts, <<"\n">>),
                   all_line_items |-> read.all_line_items,
                   invoice_id |-> nextId]
    /\ \E ex \in {DocOf(worker[w].message_id), EmptyExtracted} :
          worker' = [worker EXCEPT ![w].pc = "insert",
                                   ![w].extracted = ex,
                                   ![w].invoice_id = nextId]
    /\ nextId' = nextId + 1
    /\ UNCHANGED << invoices, calls, queue, processed_ids, enqueued, job,
                    registryVars, reconcileVars, matched, batch, cat, sync, sched, api >>

\* one caller of process_message_by_id
NextAttachments ==
    \/ Call("w1", "m1", FALSE)
    \/ Lookup("w1")
    \/ Fetch("w1")
    \/ Upload("w1")
    \/ \E atts \in SeqsUpTo(Attachments, MaxAttachments) : ExtractAttachments("w1", atts)
    \/ ExtractDone
    \/ Insert("w1")
    \/ PutExtraction("w1")

SpecAttachments == Init /\ [][NextAttachments]_vars

-----------------------------------------------------------------------------
(* The inbox sync: sync_inbox_internal *)

\* what search_messages may find: the messages of the inbox in some order
FoundIds == { <<>>, <<"m1">>, <<"m2">>, <<"m1", "m2">>, <<"m2", "m1">> }

\* the loop goes to the next message id, or the function returns its counts
NextMessage(s) ==
    [s EXCEPT !.i = s.i + 1,
              !.pc = IF s.i + 1 > Len(s.message_ids) THEN "done" ELSE "check"]

\* the entry of the log for the message at hand
Logged(s, existed, called, outcome) ==
    [s EXCEPT !.log = Append(s.log,
        [message_id |-> s.message_ids[s.i], existed |-> existed, called |-> called,
         outcome |-> outcome])]

CountSkipped(s, existed) == NextMessage([Logged(s, existed, FALSE, "skipped") EXCEPT !.skipped = @ + 1])

CountError(s, existed, called) ==
    NextMessage([Logged(s, existed, called, "errors") EXCEPT !.errors = @ + 1])

\* a result other than "success" is not counted at all
CountResultSuccessOnly(s, result) ==
    IF result.status = "success"
    THEN NextMessage([Logged(s, FALSE, TRUE, "processed") EXCEPT
             !.processed = @ + 1,
             !.new_invoices = IF result.already_processed THEN @ ELSE @ + 1])
    ELSE NextMessage(Logged(s, FALSE, TRUE, "errors"))

\* the result of process_message_by_id is counted: "success" as processed
\* (and as a new invoice unless already_processed), anything else, an
\* exception included, as an error
CountResult(s, result) ==
    IF result.status = "success"
    THEN NextMessage([Logged(s, FALSE, TRUE, "processed") EXCEPT
             !.processed = @ + 1,
             !.new_invoices = IF result.already_processed THEN @ ELSE @ + 1])
    ELSE CountError(s, FALSE, TRUE)

\* sync_inbox_internal is called and search_messages returns the ids
SyncStart(ids) ==
    /\ sync.pc \in { "idle", "done" }
    /\ calls + Len(ids) <= MaxCalls
    /\ sync' = [IdleSync EXCEPT !.message_ids = ids, !.total_found = Len(ids),
                                !.pc = IF ids = <<>> THEN "done" ELSE "check"]
    /\ UNCHANGED << pipelineVars, registryVars, reconcileVars, matched, batch, doc, cat, sched, api >>

\* build_gmail_service or search_messages raises: the exception is raised
\* again and nothing is returned
SyncSearchFails ==
    /\ sync.pc \in { "idle", "done" }
    /\ sync' = IdleSync
    /\ UNCHANGED << pipelineVars, registryVars, reconcileVars, matched, batch, doc, cat, sched, api >>

\* the existence check of a message: it raises, it finds a record, or the
\* message goes on to the download
SyncCheck ==
    /\ sync.pc = "check"
    /\ LET existed == RowsOf(sync.message_ids[sync.i]) # {}
       IN  \/ sync' = CountError(sync, existed, FALSE)
           \/ existed /\ sync' = CountSkipped(sync, TRUE)
           \/ ~existed /\ sync' = [sync EXCEPT !.pc = "download"]
    /\ UNCHANGED << pipelineVars, registryVars, reconcileVars, matched, batch, doc, cat, sched, api >>

\* download_message_and_attachments: it raises, the message has no valid
\* attachment, or process_message_by_id(message_id, force=False) is called
SyncDownload ==
    /\ sync.pc = "download"
    /\ \/ /\ sync' = CountError(sync, FALSE, FALSE)
          /\ UNCHANGED << worker, calls >>
       \/ /\ sync' = CountSkipped(sync, FALSE)
          /\ UNCHANGED << worker, calls >>
       \/ /\ worker["w1"].pc = "idle"
          /\ sync' = [sync EXCEPT !.pc = "wait"]
          /\ calls' = calls + 1
          /\ worker' = [worker EXCEPT !["w1"] =
                  [pc |-> "lookup", message_id |-> sync.message_ids[sync.i],
                   force |-> FALSE, invoice_id |-> 0, extracted |-> EmptyExtracted,
                   seen |-> { invoices[i].invoice_id :
                                i \in RowsOf(sync.message_ids[sync.i]) },
                   result |-> NoResult]]
    /\ UNCHANGED << invoices, nextId, queue, processed_ids, enqueued, job,
                    registryVars, reconcileVars, matched, batch, doc, cat, sched, api >>

\* process_message_by_id has returned or raised; the label is applied after
\* a success, and a failure of the labelling is only logged
SyncResult ==
    /\ sync.pc = "wait"
    /\ worker["w1"].pc = "idle"
    /\ sync' = CountResult(sync, worker["w1"].result)
    /\ UNCHANGED << pipelineVars, registryVars, reconcileVars, matched, batch, doc, cat, sched, api >>

\* the sync, the calls it makes, and another caller of process_message_by_id
NextSync ==
    \/ \E ids \in FoundIds : SyncStart(ids)
    \/ SyncSearchFails
    \/ SyncCheck
    \/ SyncDownload
    \/ SyncResult
    \/ Lookup("w1")
    \/ LookupFails("w1")
    \/ Fetch("w1")
    \/ Upload("w1")
    \/ Extract("w1")
    \/ Insert("w1")
    \/ PutExtraction("w1")
    \/ Call("w2", "m1", FALSE)
    \/ Lookup("w2")
    \/ Fetch("w2")
    \/ Upload("w2")
    \/ Extract("w2")
    \/ Insert("w2")
    \/ PutExtraction("w2")

SpecSync == Init /\ [][NextSync]_vars

-----------------------------------------------------------------------------
(* The scheduler: sync_inbox_internal_wrapper, run by the interval trigger *)

\* the triggers of a run of the model
MaxTriggers == 4

\* the trigger fires and a thread of the pool calls the wrapper
SchedTrigger(t) ==
    /\ sched.pc[t] = "idle"
    /\ sched.triggers < MaxTriggers
    /\ sched' = [sched EXCEPT !.pc[t] = "lock", !.triggers = @ + 1]
    /\ UNCHANGED << pipelineVars, registryVars, reconcileVars, matched, batch, doc, cat,
                    sync, api >>

\* "with _lock": the wrapper returns when _is_running is set, and sets it
\* otherwise
SchedEnter(t) ==
    /\ sched.pc[t] = "lock"
    /\ sched' = IF sched.is_running
                THEN [sched EXCEPT !.pc[t] = "idle", !.skipped = @ + 1]
                ELSE [sched EXCEPT !.pc[t] = "sync", !.is_running = TRUE, !.runs = @ + 1]
    /\ UNCHANGED << pipelineVars, registryVars, reconcileVars, matched, batch, doc, cat,
                    sync, api >>

\* sync_inbox_internal(max_results=100, include_processed=False) returns its
\* counts or raises; the exception is logged
SchedSync(t, raises) ==
    /\ sched.pc[t] = "sync"
    /\ sched' = [sched EXCEPT !.pc[t] = "finally",
                              !.raised = IF raises THEN @ + 1 ELSE @]
    /\ UNCHANGED << pipelineVars, registryVars, reconcileVars, matched, batch, doc, cat,
                    sync, api >>

\* a wrapper without the finally clause: no reset once a run has raised
SchedEndOnReturn(t) ==
    /\ sched.pc[t] = "finally"
    /\ sched' = [sched EXCEPT !.pc[t] = "idle",
                              !.is_running = IF sched.raised > 0 THEN @ ELSE FALSE]
    /\ UNCHANGED << pipelineVars, registryVars, reconcileVars, matched, batch, doc, cat,
                    sync, api >>

\* "finally: with _lock: _is_running = False"
SchedEnd(t) ==
    /\ sched.pc[t] = "finally"
    /\ sched' = [sched EXCEPT !.pc[t] = "idle", !.is_running = FALSE]
    /\ UNCHANGED << pipelineVars, registryVars, reconcileVars, matched, batch, doc, cat,
                    sync, api >>

NextScheduler ==
    \/ \E t \in Threads : SchedTrigger(t)
    \/ \E t \in Threads : SchedEnter(t)
    \/ \E t \in Threads, raises \in BOOLEAN : SchedSync(t, raises)
    \/ \E t \in Threads : SchedEnd(t)

SpecScheduler == Init /\ [][NextScheduler]_vars

-----------------------------------------------------------------------------
(* The processing endpoint: process_messages_endpoint and its job store *)

\* the requests served in a run of the model
MaxRequests == 2

\* request.message_ids of the requests: one id, an id twice, two ids, and an
\* id before and after another
RequestIds ==
    { <<"m1">>, <<"m1", "m1">>, <<"m1", "m2">>, <<"m2", "m1", "m2">> }

\* the jobs of the store for message m whose status is success, in the order
\* of the dict
SuccessJobs(store, m) ==
    { k \in 1..Len(store) : store[k].message_id = m /\ store[k].status = "success" }

\* an entry of the jobs list of the response
JobEntry(job_id, m, status) == [job_id |-> job_id, message_id |-> m, status |-> status]

\* "for message_id in request.message_ids" goes to its next turn, or the
\* response is returned
NextRequestId(a) ==
    [a EXCEPT !.i = a.i + 1,
              !.pc = IF a.i + 1 > Len(a.message_ids) THEN "idle" ELSE "check"]

\* a request arrives; the loop over seen_in_request only logs the ids that
\* occur twice
ApiRequest(ids) ==
    /\ api.pc = "idle"
    /\ api.requests < MaxRequests
    /\ calls + Len(ids) <= MaxCalls
    /\ api' = [api EXCEPT !.pc = "check", !.message_ids = ids, !.i = 1, !.jobs = <<>>,
                          !.requests = @ + 1]
    /\ UNCHANGED << pipelineVars, registryVars, reconcileVars, matched, batch, doc, cat,
                    sync, sched >>

\* the idempotency check: the first job of the store with this message id and
\* status success is reported as already_processed
ApiCheck ==
    /\ api.pc = "check"
    /\ LET m == api.message_ids[api.i]
           found == SuccessJobs(api.job_store, m)
       IN  api' = IF found # {}
                  THEN LET k == CHOOSE k \in found : \A h \in found : k <= h
                       IN  NextRequestId([api EXCEPT !.jobs =
                               Append(@, JobEntry(api.job_store[k].job_id, m,
                                                  "already_processed"))])
                  ELSE [api EXCEPT !.pc = "validate"]
    /\ UNCHANGED << pipelineVars, registryVars, reconcileVars, matched, batch, doc, cat,
                    sync, sched >>

\* the message is looked up in the mailbox: it is there or the failure is
\* only logged, or the answer is 404 and the request ends with status 400
ApiValidate ==
    /\ api.pc = "validate"
    /\ \/ api' = [api EXCEPT !.pc = "create"]
       \/ api' = [api EXCEPT !.pc = "idle", !.jobs = <<>>]
    /\ UNCHANGED << pipelineVars, registryVars, reconcileVars, matched, batch, doc, cat,
                    sync, sched >>

\* the job record is created with a fresh id and saved: queued, progress 0
ApiCreate ==
    /\ api.pc = "create"
    /\ LET job_id == Len(api.job_store) + 1
           m == api.message_ids[api.i]
       IN  api' = [api EXCEPT
                      !.pc = "start",
                      !.job_id = job_id,
                      !.job_store = Append(@, [job_id |-> job_id, message_id |-> m,
                                               status |-> "queued", progress |-> 0,
                                               result |-> None, finished_at |-> FALSE]),
                      !.jobs = Append(@, JobEntry(job_id, m, "queued"))]
    /\ UNCHANGED << pipelineVars, registryVars, reconcileVars, matched, batch, doc, cat,
                    sync, sched >>

\* the job is saved as processing with progress 25 and
\* process_message_by_id(message_id) is called
ApiStart ==
    /\ api.pc = "start"
    /\ worker["w1"].pc = "idle"
    /\ api' = [api EXCEPT !.pc = "wait",
                          !.job_store[api.job_id].status = "processing",
                          !.job_store[api.job_id].progress = 25]
    /\ calls' = calls + 1
    /\ worker' = [worker EXCEPT !["w1"] =
            [pc |-> "lookup", message_id |-> api.message_ids[api.i],
             force |-> FALSE, invoice_id |-> 0, extracted |-> EmptyExtracted,
             seen |-> { invoices[i].invoice_id : i \in RowsOf(api.message_ids[api.i]) },
             result |-> NoResult]]
    /\ UNCHANGED << invoices, nextId, queue, processed_ids, enqueued, job,
                    registryVars, reconcileVars, matched, batch, doc, cat, sync, sched >>

\* the job with the result of process_message_by_id, or with the record of
\* the exception it raised
Finished(j, result) ==
    IF result.status = "raised"
    THEN [j EXCEPT !.status = "failed", !.progress = 0, !.result = Some(Failed),
                   !.finished_at = TRUE]
    ELSE [j EXCEPT !.status = result.status,
                   !.progress = IF result.status = "success" THEN 100 ELSE 0,
                   !.result = Some(result),
                   !.finished_at = TRUE]

\* an endpoint without the except clause: the exception ends the request
ApiFinishUncaught ==
    /\ api.pc = "wait"
    /\ worker["w1"].pc = "idle"
    /\ api' = IF worker["w1"].result.status = "raised"
              THEN [api EXCEPT !.pc = "idle", !.jobs = <<>>]
              ELSE NextRequestId([api EXCEPT !.job_store[api.job_id] =
                                      Finished(@, worker["w1"].result)])
    /\ UNCHANGED << pipelineVars, registryVars, reconcileVars, matched, batch, doc, cat,
                    sync, sched >>

\* process_message_by_id has returned or raised: the job is saved with its
\* final status, and the label is applied after a success
ApiFinish ==
    /\ api.pc = "wait"
    /\ worker["w1"].pc = "idle"
    /\ api' = NextRequestId([api EXCEPT !.job_store[api.job_id] =
                                 Finished(@, worker["w1"].result)])
    /\ UNCHANGED << pipelineVars, registryVars, reconcileVars, matched, batch, doc, cat,
                    sync, sched >>

\* the endpoint and the pipeline it calls
NextApi ==
    \/ \E ids \in RequestIds : ApiRequest(ids)
    \/ ApiCheck
    \/ ApiValidate
    \/ ApiCreate
    \/ ApiStart
    \/ ApiFinish
    \/ Lookup("w1")
    \/ LookupFails("w1")
    \/ Fetch("w1")
    \/ Upload("w1")
    \/ Extract("w1")
    \/ Insert("w1")
    \/ PutExtraction("w1")

SpecApi == Init /\ [][NextApi]_vars

-----------------------------------------------------------------------------
(* Claims about the pipelines *)

\* the invoice ids of the rows of a source
IdsOf(m) == { invoices[i].invoice_id : i \in RowsOf(m) }

RaceOver(m) ==
    /\ calls = 2
    /\ \A w \in Workers :
          /\ worker[w].pc = "idle"
          /\ worker[w].result.status # "none"
          /\ worker[w].message_id = m
          /\ ~worker[w].force

\* C2: when two callers process the same source concurrently, one row for the
\* source survives, whatever the interleaving of their lookups and inserts.
C2_RaceLeavesOneRecord ==
    \A m \in Msgs : RaceOver(m) => Cardinality(RowsOf(m)) <= 1

\* C3: process_extraction_job, run for a source that has a row, creates no
\* second row for it.
C3_JobSkipsProcessedSource ==
    job.existed => ~HasInvoice(job.invoice_id)

\* C4: a run that reports failure (process_message_by_id returning "failed",
\* process_extraction_job returning False) has persisted no row.
C4_FailedRunLeavesNoRecord ==
    /\ \A w \in Workers :
          worker[w].result.status = "failed" => ~HasInvoice(worker[w].invoice_id)
    /\ job.result = "false" => ~HasInvoice(job.invoice_id)

-----------------------------------------------------------------------------
(* Claims about the reconciliation engine *)

\* the score of a text against one name, as match_vendor / match_project take it
NameScore(text, name) == Ratio(Lower(Strip(text)), Lower(name))

\* the name variants of a loaded registry, as <<entry, variant>> positions
Variants(entries) ==
    UNION { { <<e, k>> : k \in 1..Len(entries[e].all_names) } : e \in 1..Len(entries) }

VariantScore(entries, text, c) == NameScore(text, entries[c[1]].all_names[c[2]])

\* the highest score of a text over every name variant (0 without variants)
BestScore(entries, text) ==
    IF Variants(entries) = {} THEN 0
    ELSE LET c == CHOOSE c \in Variants(entries) :
                    \A d \in Variants(entries) :
                        VariantScore(entries, text, d) <= VariantScore(entries, text, c)
         IN  VariantScore(entries, text, c)

\* some variant of the entry with this id and this canonical name reaches score
Reaches(entries, text, id, canonical, score) ==
    \E c \in Variants(entries) :
        /\ entries[c[1]].id = id
        /\ entries[c[1]].canonical_name = canonical
        /\ VariantScore(entries, text, c) >= score

Called == last.op = "reconcile"

HasVendorText(inv) ==
    /\ IsSome(ExtractedVendorName(inv.extracted))
    /\ Get(ExtractedVendorName(inv.extracted)) # <<>>

VendorTextOf(inv) == Get(ExtractedVendorName(inv.extracted))
ProjectTextOf(inv) == Get(ExtractedProjectName(inv.extracted))

BestVendorScore(inv) == BestScore(LoadVendors(vendors), VendorTextOf(inv))

SuggestionsOf(extra) == IF IsSome(extra) THEN Get(extra).suggestions ELSE None

VendorSuggestionsOf(extra) ==
    IF IsSome(SuggestionsOf(extra)) THEN Get(SuggestionsOf(extra)).vendors ELSE None

C6_ReconcileIdempotent ==
    (Called /\ last.streak = 2) =>
        /\ invoice.normalized = last.before.normalized
        /\ invoice.reconciliation_status = last.before.reconciliation_status
        /\ SuggestionsOf(invoice.extra) = SuggestionsOf(last.before.extra)

\* a second call in a row has stored suggestions again, on a record that
\* carries the vendor id of an earlier auto-match
C6_Witness ==
    /\ Called
    /\ last.streak = 2
    /\ last.updated
    /\ last.vendor_branch = "suggest"
    /\ IsSome(Get(invoice.normalized).vendor_id)

\* C7: a vendor_id written by the call is the id of a registry entry with a
\* name variant scoring 90 or more against the extracted vendor text, and
\* vendor_name is that entry's canonical name; the same for the project.
C7_AutoMatchReferencesEntry ==
    Called =>
        /\ last.vendor_branch = "auto" =>
              /\ IsSome(Get(invoice.normalized).vendor_id)
              /\ IsSome(Get(invoice.normalized).vendor_name)
              /\ Reaches(LoadVendors(vendors), VendorTextOf(invoice),
                         Get(Get(invoice.normalized).vendor_id),
                         Get(Get(invoice.normalized).vendor_name),
                         Points(AutoMatchScore))
        /\ last.project_branch = "auto" =>
              /\ IsSome(Get(invoice.normalized).project_id)
              /\ IsSome(Get(invoice.normalized).project_name)
              /\ Reaches(LoadProjects(projects), ProjectTextOf(invoice),
                         Get(Get(invoice.normalized).project_id),
                         Get(Get(invoice.normalized).project_name),
                         Points(AutoMatchScore))

\* the call has auto-matched the vendor through an alias of the second of two
\* entries, and the project as well
C7_Witness ==
    /\ Called
    /\ last.vendor_branch = "auto"
    /\ last.project_branch = "auto"
    /\ Len(vendors) = 2
    /\ Get(invoice.normalized).vendor_id = Some(1)
    /\ vendors[2].vendor_id = 1

\* C8: with the best vendor score in [60, 90) the call writes no vendor id or
\* name, stores the suggestions of match_vendor under extra.suggestions.vendors
\* and a record in needs_review (or without status) is in needs_review after
\* it; with the best score below 60 it writes neither id, name nor suggestions.
C8_SuggestionTier ==
    (Called /\ HasVendorText(last.before)) =>
        LET best == BestVendorScore(last.before)
            before == NormalizedOrEmpty(last.before)
            after == NormalizedOrEmpty(invoice)
        IN  /\ best < Points(AutoMatchScore) =>
                  /\ after.vendor_id = before.vendor_id
                  /\ after.vendor_name = before.vendor_name
            /\ (best >= Points(SuggestScore) /\ best < Points(AutoMatchScore)) =>
                  /\ last.updated
                  /\ IsSome(VendorSuggestionsOf(invoice.extra))
                  /\ Get(VendorSuggestionsOf(invoice.extra)) # <<>>
                  /\ \A i \in 1..Len(Get(VendorSuggestionsOf(invoice.extra))) :
                        LET sg == Get(VendorSuggestionsOf(invoice.extra))[i]
                        IN  Reaches(LoadVendors(vendors), VendorTextOf(last.before),
                                    sg.id, sg.name, Points(SuggestScore))
                  /\ last.before.reconciliation_status \in {None, Some("needs_review")}
                        => invoice.reconciliation_status = Some("needs_review")
            /\ best < Points(SuggestScore) =>
                  VendorSuggestionsOf(invoice.extra) = VendorSuggestionsOf(last.before.extra)

\* a needs_review record whose best vendor score is in the suggestion tier
\* has been reconciled and three suggestions stored
C8_Witness ==
    /\ Called
    /\ HasVendorText(last.before)
    /\ BestVendorScore(last.before) >= Points(SuggestScore)
    /\ BestVendorScore(last.before) < Points(AutoMatchScore)
    /\ last.before.reconciliation_status = Some("needs_review")
    /\ Len(Get(VendorSuggestionsOf(invoice.extra))) = 3

\* C9: for a needs_review record whose vendor text scores 90 or more, the call
\* returns True, writes the id and the canonical name of an entry that attains
\* the best score, and sets the status to auto_matched.
C9_AutoMatch ==
    (/\ Called
     /\ last.before.reconciliation_status = Some("needs_review")
     /\ HasVendorText(last.before)
     /\ BestVendorScore(last.before) >= Points(AutoMatchScore)) =>
        /\ last.updated
        /\ invoice.reconciliation_status = Some("auto_matched")
        /\ IsSome(Get(invoice.normalized).vendor_id)
        /\ IsSome(Get(invoice.normalized).vendor_name)
        /\ Reaches(LoadVendors(vendors), VendorTextOf(last.before),
                   Get(Get(invoice.normalized).vendor_id),
                   Get(Get(invoice.normalized).vendor_name),
                   BestVendorScore(last.before))

\* a needs_review record has been auto-matched
C9_Witness ==
    /\ Called
    /\ last.before.reconciliation_status = Some("needs_review")
    /\ HasVendorText(last.before)
    /\ BestVendorScore(last.before) >= Points(AutoMatchScore)
    /\ invoice.reconciliation_status = Some("auto_matched")

\* the registry and the text of the last match_vendor / match_project call
MatchedEntries ==
    IF matched.op = "match_vendor" THEN LoadVendors(vendors) ELSE LoadProjects(projects)

\* the name variants that score 60 or more in that call
Candidates ==
    { c \in Variants(MatchedEntries) :
        VariantScore(MatchedEntries, matched.text, c) >= Points(SuggestScore) }

\* C10: the suggestions returned are at most 3, each scores 60 or more, the
\* scores do not increase along the list, every suggestion is a candidate of
\* the registry, and the candidates left out score no higher than any kept.
C10_TopSuggestions ==
    matched.op # "none" =>
        LET sg == matched.result.suggestions
            n == Len(sg)
        IN  /\ n <= MaxSuggestions
            /\ n = IF Cardinality(Candidates) < MaxSuggestions
                   THEN Cardinality(Candidates) ELSE MaxSuggestions
            /\ \A i \in 1..n : sg[i].score >= Points(SuggestScore)
            /\ \A i \in 1..(n - 1) : sg[i].score >= sg[i + 1].score
            /\ \A i \in 1..n :
                  \E c \in Candidates :
                      /\ MatchedEntries[c[1]].id = sg[i].id
                      /\ MatchedEntries[c[1]].canonical_name = sg[i].name
                      /\ VariantScore(MatchedEntries, matched.text, c) = sg[i].score
            /\ n > 0 =>
                  \A t \in { sg[i].score : i \in 1..n } :
                      Cardinality({ c \in Candidates :
                                      VariantScore(MatchedEntries, matched.text, c) > t })
                        = Cardinality({ i \in 1..n : sg[i].score > t })

\* match_vendor has cut more than three candidates of differing scores to three
C10_Witness ==
    /\ matched.op = "match_vendor"
    /\ Cardinality(Candidates) > MaxSuggestions
    /\ Len(matched.result.suggestions) = MaxSuggestions
    /\ matched.result.suggestions[1].score > matched.result.suggestions[3].score

\* the variants of the registry of the last call that reach its highest score
Attaining ==
    { c \in Variants(MatchedEntries) :
        VariantScore(MatchedEntries, matched.text, c)
            = BestScore(MatchedEntries, matched.text) }

\* the id of the first entry, in registry order, with a variant in the set
FirstEntryId(cs) ==
    LET e == CHOOSE e \in { c[1] : c \in cs } : \A c \in cs : e <= c[1]
    IN  MatchedEntries[e].id

\* the variants equal to the text of the last call but for case and for the
\* blanks around the text
EqualNames ==
    { c \in Variants(MatchedEntries) :
        Lower(MatchedEntries[c[1]].all_names[c[2]]) = Lower(Strip(matched.text)) }

\* the parts of C11 on an empty text and on a text equal to a registered name
C11_EmptyAndExact ==
    LET r == matched.result
    IN  /\ matched.text = <<>> => r = NoMatch
        /\ (matched.text # <<>> /\ EqualNames # {}) =>
              /\ r.best_score = Points(100)
              /\ IsSome(r.best_match)
              /\ \E c \in EqualNames : MatchedEntries[c[1]].id = Get(r.best_match)

\* C11 as stated: for a text that is not empty and a registry that is not,
\* best_score is the highest score over every name variant and best_id is the
\* id of the first entry in registry order that attains it; a text equal to a
\* name but for case and surrounding blanks scores 100 with the id of an entry
\* of that name; the empty text yields (None, 0, []).
C11_BestMatch ==
    matched.op # "none" =>
        LET r == matched.result
        IN  /\ C11_EmptyAndExact
            /\ (matched.text # <<>> /\ Variants(MatchedEntries) # {}) =>
                  /\ r.best_score = BestScore(MatchedEntries, matched.text)
                  /\ r.best_match = Some(FirstEntryId(Attaining))

\* C11 amended: as C11, but best_id is an entry that attains the highest score
\* only when that score is above 0; when no variant scores above 0, or the
\* registry is empty, the result is (None, 0, []).
C11_BestMatchAboveZero ==
    matched.op # "none" =>
        LET r == matched.result
            best == BestScore(MatchedEntries, matched.text)
        IN  /\ C11_EmptyAndExact
            /\ matched.text # <<>> =>
                  /\ r.best_score = best
                  /\ best > 0 => r.best_match = Some(FirstEntryId(Attaining))
                  /\ best = 0 => r = NoMatch

\* match_vendor found two entries at the same highest score and returned the
\* first of them, the second entry being the one with the smaller id
C11_Witness ==
    /\ matched.op = "match_vendor"
    /\ matched.result.best_score > 0
    /\ Cardinality({ c[1] : c \in Attaining }) > 1
    /\ matched.result.best_match = Some(FirstEntryId(Attaining))
    /\ \E c \in Attaining : MatchedEntries[c[1]].id < Get(matched.result.best_match)

\* C12: under fair execution of the worker loop every record whose status is
\* needs_review or unset is eventually passed to reconcile_invoice, however
\* many other records stay in needs_review.
C12_EveryRecordReconciled ==
    \A id \in 1..MaxCalls :
        (\E i \in NeedsReconciliation : invoices[i].invoice_id = id)
            ~> (id \in batch.passed)

-----------------------------------------------------------------------------
(* Claims about the field extraction engine *)

\* the priority tier of a labelled line: order total 100, grand total 90,
\* amount due and balance due 85, charged 80, every other total 50
TierOf(label) ==
    CASE label = "order_total" -> 100
      [] label = "grand_total" -> 90
      [] label \in { "amount_due", "balance_due" } -> 85
      [] label = "charged" -> 80
      [] OTHER -> 50

\* the lines of the document of the last call, and the highest tier among them
LinesOfDoc == { doc.lines[i] : i \in 1..Len(doc.lines) }
LabelsOfDoc == { l.label : l \in LinesOfDoc }
TopTier ==
    CHOOSE t \in { TierOf(lb) : lb \in LabelsOfDoc } :
        \A lb \in LabelsOfDoc : TierOf(lb) <= t

\* C13: the total_amount returned is the amount of a line of the highest
\* priority tier present, with that priority, and with confidence 0.95 when
\* the priority is 80 or more and 0.85 otherwise; a text with "Subtotal:
\* $100.00" and "Order Total: $120.00", in either order, gives 120.00 with a
\* confidence of at least 0.9.
C13_TotalAmountPriority ==
    doc.op # "none" =>
        /\ IsSome(doc.result)
        /\ Get(doc.result).priority = TopTier
        /\ Get(doc.result).value \in { l.amount : l \in { m \in LinesOfDoc :
                                                            TierOf(m.label) = TopTier } }
        /\ Get(doc.result).confidence = IF TopTier >= 80 THEN 95 ELSE 85
        /\ LabelsOfDoc = { "subtotal", "order_total" } =>
              /\ Get(doc.result).value = 12000
              /\ Get(doc.result).confidence >= 90

\* extract_all_fields has read an attachment with the subtotal line before
\* the order total line and returned the order total
C13_Witness ==
    /\ doc.op = "extract_all_fields"
    /\ Len(doc.lines) = 2
    /\ doc.lines[1].label = "subtotal"
    /\ doc.lines[2].label = "order_total"
    /\ Len(SplitOn(doc.text, AttachmentMarker, 1, <<>>)) = 2
    /\ doc.result = Some([value |-> 12000, confidence |-> 95, priority |-> 100,
                           pattern |-> 1])

\* C14: for a document with a "Subtotal" line and a plain "Total" line, in
\* either order, the total_amount returned is the amount of the total line
\* (found at priority 50), never the subtotal.
C14_SubtotalDemoted ==
    (doc.op # "none" /\ LabelsOfDoc = { "subtotal", "total" }) =>
        /\ IsSome(doc.result)
        /\ Get(doc.result).value = 11000
        /\ Get(doc.result).priority = 50

-----------------------------------------------------------------------------
(* Claims about the item categorizer *)

\* the three letters of each category of the fixed set
CategoryCode ==
    [c \in { DEFAULT_CATEGORIES[i] : i \in 1..Len(DEFAULT_CATEGORIES) } |->
        CASE c = <<"E", "l", "e", "c", "t", "r", "i", "c", "a", "l">> -> <<"E", "L", "E">>
          [] c = <<"H", "a", "r", "d", "w", "a", "r", "e">> -> <<"H", "A", "R">>
          [] c = <<"T", "o", "o", "l", "s">> -> <<"T", "O", "O">>
          [] c = <<"P", "l", "u", "m", "b", "i", "n", "g">> -> <<"P", "L", "U">>
          [] c = <<"H", "V", "A", "C">> -> <<"H", "V", "A">>
          [] c = <<"M", "a", "t", "e", "r", "i", "a", "l", "s">> -> <<"M", "A", "T">>
          [] c = <<"S", "a", "f", "e", "t", "y">> -> <<"S", "A", "F">>
          [] c = <<"F", "a", "s", "t", "e", "n", "e", "r", "s">> -> <<"F", "A", "S">>
          [] c = <<"L", "u", "m", "b", "e", "r">> -> <<"L", "U", "M">>
          [] c = <<"C", "o", "n", "c", "r", "e", "t", "e">> -> <<"C", "O", "N">>
          [] c = <<"O", "t", "h", "e", "r">> -> <<"O", "T", "H">>]

\* a sequence number below 1000 in three digits
ThreeDigits(n) ==
    << DigitChar[(n \div 100) + 1], DigitChar[((n \div 10) % 10) + 1], DigitChar[(n % 10) + 1] >>

\* the items of the same category at or before item i of a result
SameCategoryUpTo(out, i) == { j \in 1..i : out[j].category = out[i].category }

\* every item of a result has a category of the fixed set and the BOM number
\* of its category and of its rank among the items of that category
WellNumbered(out) ==
    \A i \in 1..Len(out) :
        /\ IsDefaultCategory(out[i].category)
        /\ out[i].bom_number = CategoryCode[out[i].category] \o <<"-">>
                                  \o ThreeDigits(Cardinality(SameCategoryUpTo(out, i)))

\* C15: whichever path ran, the output has the items of the input in their
\* order, each with the BOM number <first three letters of the category in
\* upper case>-<three-digit count of the items of that category so far>.
C15_BomNumbering ==
    cat.op = "categorize" =>
        /\ Len(cat.result) = Len(cat.items)
        /\ \A i \in 1..Len(cat.items) :
              /\ cat.result[i].description = cat.items[i].description
              /\ cat.result[i].quantity = cat.items[i].quantity
        /\ WellNumbered(cat.result)

\* the classifier path has numbered five items of the categories Electrical,
\* Electrical, Hardware, Electrical, Other
C15_Witness ==
    /\ cat.op = "categorize"
    /\ cat.available
    /\ cat.reply.kind = "json"
    /\ cat.reply.entries = FiveEntries
    /\ cat.items = FiveItems
    /\ [i \in 1..5 |-> cat.result[i].bom_number]
         = << <<"E", "L", "E", "-", "0", "0", "1">>, <<"E", "L", "E", "-", "0", "0", "2">>,
              <<"H", "A", "R", "-", "0", "0", "1">>, <<"E", "L", "E", "-", "0", "0", "3">>,
              <<"O", "T", "H", "-", "0", "0", "1">> >>

\* the reply of the classifier is an array of objects
ParsableReply ==
    /\ cat.reply.kind = "json"
    /\ \A k \in 1..Len(cat.reply.entries) : cat.reply.entries[k].is_dict

\* C16: when the classifier library is missing, its call raises or its reply
\* is not parsable as a list of {item_index, category} objects, the result is
\* the keyword categorization of the same items, every item with a category
\* of the fixed set and a BOM number.
C16_ClassifierFailureFallsBack ==
    (cat.op = "categorize" /\ (~cat.available \/ ~ParsableReply)) =>
        /\ cat.result = CategorizeWithKeywords(cat.items)
        /\ WellNumbered(cat.result)
        /\ Len(cat.result) = Len(cat.items)

-----------------------------------------------------------------------------
(* Claims about the document text extractor *)

\* the length of a text without its leading and trailing whitespace
StrippedLength(s) ==
    LET start == CHOOSE i \in 1..(Len(s) + 1) :
                     /\ i = Len(s) + 1 \/ ~IsSpace(s[i])
                     /\ \A j \in 1..(i - 1) : IsSpace(s[j])
        stop == CHOOSE i \in 0..Len(s) :
                     /\ i = 0 \/ ~IsSpace(s[i])
                     /\ \A j \in (i + 1)..Len(s) : IsSpace(s[j])
    IN  IF start > stop THEN 0 ELSE stop - start + 1

\* C17: extract_text_from_pdf invokes OCR exactly when the digital parse
\* raised or the concatenated digital text (the page texts joined with their
\* page markers) has fewer than 100 characters; with 100 characters or more
\* OCR is not invoked and the digital text is returned.
C17_OcrTrigger ==
    doc.op = "extract_text_from_pdf" =>
        LET full_text == DigitalText(doc.pdf.pages)
        IN  /\ doc.result.ocr <=> (doc.pdf.parse = "raise" \/ Len(full_text) < 100)
            /\ (doc.pdf.parse = "ok" /\ Len(full_text) >= 100) =>
                   doc.result.text = full_text

\* C17, amended: extract_text_from_pdf invokes OCR exactly when the digital
\* parse raised or the concatenated digital text, without its leading and
\* trailing whitespace, has fewer than 100 characters; with 100 such
\* characters or more OCR is not invoked and the digital text is returned.
C17_OcrTriggerStripped ==
    doc.op = "extract_text_from_pdf" =>
        LET full_text == DigitalText(doc.pdf.pages)
        IN  /\ doc.result.ocr <=>
                   (doc.pdf.parse = "raise" \/ StrippedLength(full_text) < 100)
            /\ (doc.pdf.parse = "ok" /\ StrippedLength(full_text) >= 100) =>
                   doc.result.text = full_text

\* a digital text of 100 characters or more, fewer without its trailing
\* blanks, has been read by OCR
C17_Witness ==
    /\ doc.op = "extract_text_from_pdf"
    /\ doc.pdf.parse = "ok"
    /\ doc.pdf.ocr = "ok"
    /\ Len(DigitalText(doc.pdf.pages)) >= 100
    /\ StrippedLength(DigitalText(doc.pdf.pages)) = 99
    /\ doc.result.ocr
    /\ doc.result.text = OcrText(doc.pdf)

\* the PDF and image attachments of a list
Readable(atts) == { k \in 1..Len(atts) : atts[k].kind \in { "pdf", "image" } }

\* parsing and OCR of an attachment both fail
Unreadable(att) ==
    \/ att.kind = "pdf" /\ att.file.parse = "raise" /\ att.file.ocr = "raise"
    \/ att.kind = "image" /\ att.file.ocr = "raise"

\* the extraction function has returned for every PDF and image attachment,
\* with empty text and no line items for an unreadable one, and every one of
\* them has its section in the text
NeverRaises ==
    doc.op = "attachments" =>
        LET read == [k \in 1..Cardinality(Readable(doc.attachments)) |->
                        CHOOSE i \in Readable(doc.attachments) :
                            Cardinality({ j \in Readable(doc.attachments) : j <= i }) = k]
        IN  /\ Len(doc.returned) = Len(read)
            /\ Len(doc.pdf_texts) = Len(read)
            /\ \A k \in 1..Len(read) :
                  /\ ~doc.returned[k].raised
                  /\ Unreadable(doc.attachments[read[k]]) =>
                        /\ doc.returned[k].text = <<>>
                        /\ doc.returned[k].line_items = <<>>
                  /\ doc.pdf_texts[k] =
                        AttachmentText(doc.attachments[read[k]].filename,
                                       doc.returned[k].text)

\* the extraction step of a call goes on to the insert of the record
GoesOnToInsert ==
    (worker["w1"].pc = "extract" /\ worker'["w1"] # worker["w1"]) =>
        /\ worker'["w1"].pc = "insert"
        /\ doc'.op = "attachments"

\* C18: extract_text_from_pdf and extract_text_from_image never raise and
\* return empty text (and no line items) when parsing and OCR both fail;
\* process_message_by_id reads every PDF and image attachment however the
\* others fared and goes on to create the record.
C18_UnreadableAttachment == []NeverRaises /\ [][GoesOnToInsert]_vars

\* a call whose first attachment could neither be parsed nor rendered has
\* read the second one, created its record and returned "success"
C18_Witness ==
    /\ doc.op = "attachments"
    /\ Len(doc.attachments) = 2
    /\ doc.attachments[1].kind = "pdf"
    /\ doc.attachments[1].file.parse = "raise"
    /\ doc.attachments[1].file.ocr = "raise"
    /\ doc.attachments[2].filename = FileA
    /\ Len(doc.pdf_texts) = 2
    /\ doc.all_line_items # <<>>
    /\ worker["w1"].pc = "idle"
    /\ worker["w1"].result = Success(doc.invoice_id, FALSE)
    /\ HasInvoice(doc.invoice_id)

-----------------------------------------------------------------------------
(* Claims about the failures of process_message_by_id *)

\* C19: a caller of process_message_by_id never sees a raw exception: every
\* failure, a database failure during the existing-record lookup and a
\* storage failure after the commit included, comes back as a structured
\* result with status "failed".
C19_NoRawException ==
    \A w \in Workers :
        worker[w].pc = "idle" => worker[w].result.status \in { "none", "success", "failed" }

-----------------------------------------------------------------------------
(* Claims about the inbox sync *)

\* the entries of the log with an outcome
Counted(outcome) == { k \in 1..Len(sync.log) : sync.log[k].outcome = outcome }

\* every message id found is counted once, in the order found, and
\* new_invoices is at most processed
CountsAddUp ==
    sync.pc = "done" =>
        /\ sync.total_found = Len(sync.message_ids)
        /\ sync.total_found = sync.processed + sync.skipped + sync.errors
        /\ [k \in 1..Len(sync.log) |-> sync.log[k].message_id] = sync.message_ids
        /\ sync.processed = Cardinality(Counted("processed"))
        /\ sync.skipped = Cardinality(Counted("skipped"))
        /\ sync.errors = Cardinality(Counted("errors"))
        /\ sync.new_invoices <= sync.processed

\* C20: when sync_inbox_internal returns, total_found = processed + skipped +
\* errors and new_invoices <= processed; a message for which an Invoice
\* record exists at its check is counted as skipped and is not passed to
\* process_message_by_id.
C20_SyncCounts ==
    /\ CountsAddUp
    /\ \A k \in 1..Len(sync.log) :
          sync.log[k].existed => (sync.log[k].outcome = "skipped" /\ ~sync.log[k].called)

\* C20, amended: when sync_inbox_internal returns, total_found = processed +
\* skipped + errors and new_invoices <= processed; a message for which an
\* Invoice record exists at its check is not passed to
\* process_message_by_id and is counted as skipped, or as an error when the
\* check itself raises.
C20_SyncCountsOrError ==
    /\ CountsAddUp
    /\ \A k \in 1..Len(sync.log) :
          sync.log[k].existed =>
              (sync.log[k].outcome \in { "skipped", "errors" } /\ ~sync.log[k].called)

\* a sync has returned after skipping a message with a record, processing
\* another one into a new invoice
C20_Witness ==
    /\ sync.pc = "done"
    /\ sync.total_found = 2
    /\ sync.skipped = 1
    /\ sync.processed = 1
    /\ sync.new_invoices = 1
    /\ \E k \in 1..2 : sync.log[k].existed /\ sync.log[k].outcome = "skipped"

-----------------------------------------------------------------------------
(* Further claims about the reconciliation engine *)

\* the record of the last call as a pipeline would have stored it: the same
\* extracted fields, nothing normalized yet
FreshTwin == [last.before EXCEPT !.normalized = None]

\* C21: normalized after reconcile_invoice depends only on the extracted
\* fields and the registry: a record with the same extracted fields and an
\* empty normalized map, reconciled against the same registry, ends with the
\* same normalized map.
C21_NormalizedIsPure ==
    Called =>
        NormalizedOrEmpty(invoice)
          = NormalizedOrEmpty(ReconcileInvoice(FreshTwin, LoadVendors(vendors),
                                               LoadProjects(projects)).invoice)


\* the statuses a reviewer sets
HumanStatuses == { Some("manual"), Some("ignored") }

\* a status counted as awaiting reconciliation: needs_review, or not set
Awaiting(status) == status \in { Some("needs_review"), None }

\* C22: the only status transition of the engine is from needs_review or unset
\* to auto_matched; a record whose status is manual or ignored keeps a status
\* set by a reviewer, also when a batch of the worker loaded it before the
\* reviewer's commit.
C22_HumanStatusKept ==
    [][\A i \in 1..Len(invoices) :
          LET old == invoices[i].reconciliation_status
              new == invoices'[i].reconciliation_status
          IN  /\ old \in HumanStatuses => new \in HumanStatuses
              /\ new # old /\ new \notin HumanStatuses
                    /\ ~(Awaiting(old) /\ Awaiting(new))
                    => Awaiting(old) /\ new = Some("auto_matched")]_vars


\* C23: the suggestions of match_vendor and match_project are entries of the
\* registry, each entry at most once in the list returned, also when several
\* of its name variants score 60 or more.
C23_SuggestionsAreEntries ==
    matched.op # "none" =>
        LET sg == matched.result.suggestions
        IN  /\ \A i \in 1..Len(sg) :
                  \E e \in 1..Len(MatchedEntries) :
                      /\ MatchedEntries[e].id = sg[i].id
                      /\ MatchedEntries[e].canonical_name = sg[i].name
            /\ \A i, j \in 1..Len(sg) : sg[i].id = sg[j].id => i = j


-----------------------------------------------------------------------------
(* Further claims about the categorizer *)

\* the entries of the reply of the last call whose item_index is i
EntriesFor(i) ==
    { k \in 1..Len(cat.reply.entries) : cat.reply.entries[k].item_index = Some(i) }

\* the category the reply gives to position i: that of its first entry for i
\* when it is one of the set, Other otherwise
CategoryFor(i) ==
    IF EntriesFor(i) = {} THEN Other
    ELSE LET k == CHOOSE k \in EntriesFor(i) : \A h \in EntriesFor(i) : k <= h
             category == cat.reply.entries[k].category
         IN  IF IsSome(category) /\ IsDefaultCategory(Get(category))
             THEN Get(category) ELSE Other

\* C24: on the classifier path the item at position i receives the category of
\* the reply's entry whose item_index is i, also when the input holds two
\* identical items; a category outside the set, or no entry, gives Other.
C24_CategoryByPosition ==
    (cat.op = "categorize" /\ cat.available /\ ParsableReply) =>
        /\ Len(cat.result) = Len(cat.items)
        /\ \A i \in 1..Len(cat.items) : cat.result[i].category = CategoryFor(i)


-----------------------------------------------------------------------------
(* Claims about the scheduler and the processing endpoint *)

\* the threads inside sync_inbox_internal
InSync == { t \in Threads : sched.pc[t] = "sync" }

\* the threads between the setting of _is_running and its reset
Running == { t \in Threads : sched.pc[t] \in { "sync", "finally" } }

\* C25: at most one scheduled ingestion run is in progress: a trigger that
\* fires while _is_running is true returns without calling
\* sync_inbox_internal, and _is_running is false again when a run has ended,
\* also when sync_inbox_internal raised.
C25_OneRunAtATime ==
    /\ [](Cardinality(InSync) <= 1)
    /\ [](sched.is_running <=> Running # {})
    /\ [][\A t \in Threads :
            (sched.pc[t] = "lock" /\ sched.is_running /\ sched'.pc[t] # "lock")
                => sched'.pc[t] = "idle" /\ sched'.runs = sched.runs]_vars

\* a run has raised and ended, a later trigger has started the next run, and
\* a further trigger has been turned away meanwhile
C25_Witness ==
    /\ sched.raised > 0
    /\ sched.runs > 1
    /\ sched.skipped > 0
    /\ InSync # {}


\* the statuses a job ends in
TerminalStatuses == { "success", "failed" }

\* the job the endpoint is working on, if any
JobAtHand == IF api.pc \in { "start", "wait" } THEN { api.job_id } ELSE {}

\* C26: every job of process_messages_endpoint goes from queued to processing
\* to success or failed; when the endpoint moves to the next message or
\* returns, the job is terminal with finished_at set, also when
\* process_message_by_id raised; progress is 100 exactly when the status is
\* success.
C26_JobLifecycle ==
    /\ [](\A k \in 1..Len(api.job_store) :
            LET j == api.job_store[k]
            IN  /\ j.status \in { "queued", "processing" } \cup TerminalStatuses
                /\ j.progress = 100 <=> j.status = "success"
                /\ k \notin JobAtHand => j.status \in TerminalStatuses /\ j.finished_at)
    /\ [][\A k \in 1..Len(api.job_store) :
            LET old == api.job_store[k].status
                new == api'.job_store[k].status
            IN  new # old =>
                    \/ old = "queued" /\ new = "processing"
                    \/ old = "processing" /\ new \in TerminalStatuses]_vars

\* process_message_by_id raised for the first message of a request, its job
\* is failed, and the endpoint has gone on to the job of the second message
C26_Witness ==
    /\ api.pc = "start"
    /\ api.i = 2
    /\ worker["w1"].result.status = "raised"
    /\ Len(api.job_store) > 1
    /\ api.job_store[api.job_id - 1].status = "failed"
    /\ api.job_store[api.job_id - 1].progress = 0
    /\ api.job_store[api.job_id - 1].finished_at
    /\ api.job_store[api.job_id].status = "queued"


\* the entries of the response so far that are new jobs for message m
NewJobs(m) ==
    { k \in 1..Len(api.jobs) :
        api.jobs[k].message_id = m /\ api.jobs[k].status = "queued" }

\* C27: for a request that lists a message id more than once the endpoint
\* runs the pipeline for the id at most once and creates at most one new job;
\* an id that has a job with status success is not processed again and is
\* reported as already_processed with the id of that job.
C27_OncePerRequest ==
    /\ \A m \in Msgs : Cardinality(NewJobs(m)) <= 1
    /\ \A k \in 1..Len(api.jobs) :
          LET e == api.jobs[k]
          IN  /\ e.status = "already_processed" =>
                    /\ e.job_id \in SuccessJobs(api.job_store, e.message_id)
              /\ e.status = "queued" =>
                    \A h \in SuccessJobs(api.job_store, e.message_id) : h >= e.job_id


-----------------------------------------------------------------------------
(* Further claims about the pipelines *)

\* the numbers, in enqueue order, of the jobs in the queue
Queued == { queue[k].n : k \in 1..Len(queue) }

\* C28: the extraction worker processes each enqueued job at most once and in
\* enqueue order: a job is out of the queue before it is processed, and a job
\* that failed is neither put back nor taken again.
C28_EachJobOnceInOrder ==
    /\ [](\A n \in Queued : n > job.n)
    /\ [][job'.n # job.n =>
            /\ job.pc = "idle"
            /\ job'.pc = "download"
            /\ job'.n = job.n + 1
            /\ job'.n \in Queued
            /\ job'.n \notin { queue'[k].n : k \in 1..Len(queue') }]_vars

\* the first job has failed and the worker is idle again; the second job
\* waits in the queue and the first is not in it
C28_Witness ==
    /\ job.pc = "idle"
    /\ job.n = 1
    /\ job.result = "false"
    /\ Queued = { 2 }


\* the one caller is inside a call with force=True
Forcing == worker["w1"].pc # "idle" /\ worker["w1"].force

\* the one caller is back from a call with force=True that succeeded
ForcedSuccess ==
    /\ worker["w1"].pc = "idle"
    /\ worker["w1"].force
    /\ worker["w1"].result.status = "success"

\* C29: process_message_by_id with force=True on a message that has an Invoice
\* does not look up, change or delete the record: it inserts a further
\* Invoice with a fresh invoice_id and the same source_email_id, so that after
\* a successful forced call the source has one record more.
C29_ForceInsertsAnother ==
    /\ [](Forcing => worker["w1"].pc # "lookup")
    /\ [](ForcedSuccess =>
            LET rows == RowsOf(worker["w1"].message_id)
                id == Get(worker["w1"].result.invoice_id)
            IN  /\ ~worker["w1"].result.already_processed
                /\ id \notin worker["w1"].seen
                /\ \E i \in rows : invoices[i].invoice_id = id
                /\ worker["w1"].seen \subseteq { invoices[i].invoice_id : i \in rows }
                /\ Cardinality(rows) = Cardinality(worker["w1"].seen) + 1)
    /\ [][Forcing =>
            /\ Len(invoices') >= Len(invoices)
            /\ SubSeq(invoices', 1, Len(invoices)) = invoices]_vars

\* a forced call on a message that had a record has succeeded
C29_Witness ==
    /\ ForcedSuccess
    /\ worker["w1"].seen # {}
    /\ Cardinality(RowsOf(worker["w1"].message_id)) = 2


\* the record holds a project text
HasProjectText(inv) ==
    /\ IsSome(ExtractedProjectName(inv.extracted))
    /\ Get(ExtractedProjectName(inv.extracted)) # <<>>

\* a vendor or a project of the registry scores 60 or more for the record
SomeSuggestible(inv) ==
    \/ HasVendorText(inv) /\ BestVendorScore(inv) >= Points(SuggestScore)
    \/ HasProjectText(inv)
          /\ BestScore(LoadProjects(projects), ProjectTextOf(inv)) >= Points(SuggestScore)

\* C30: reconcile_invoice never modifies extracted, and when it returns False
\* it has left normalized, reconciliation_status and extra as they were; it
\* returns False only when no vendor or project scored 60 or more and
\* extracted holds neither total_amount nor date.
C30_FalseLeavesRecord ==
    Called =>
        /\ invoice.extracted = last.before.extracted
        /\ ~last.updated =>
              /\ invoice.normalized = last.before.normalized
              /\ invoice.reconciliation_status = last.before.reconciliation_status
              /\ invoice.extra = last.before.extra
              /\ ~SomeSuggestible(last.before)
              /\ last.before.extracted.total_amount = None
              /\ last.before.extracted.date = None

\* reconcile_invoice has returned False on a record without status whose
\* vendor text scores below 60 against every name of a registry with entries
C30_Witness ==
    /\ Called
    /\ ~last.updated
    /\ HasVendorText(last.before)
    /\ vendors # <<>>
    /\ BestVendorScore(last.before) > 0
    /\ last.before.reconciliation_status = None


=============================================================================
